---- MODULE Spec2Model ----
(***************************************************************************)
(* Retry / resilience layer of the JobKorea resume updater.                *)
(*                                                                         *)
(*   withRetry            utils/retry.ts   operation-level retry           *)
(*   withBrowserRestart   utils/retry.ts   process-level retry             *)
(*   updateResume         updateResume.ts  the workflow and notifications  *)
(*   JobKoreaService      services/jobkorea.ts  the five workflow steps    *)
(*   BrowserService       services/browser.ts   the browser session        *)
(*   sendTelegramMessage  notify.ts        the notification transport      *)
(*                                                                         *)
(* Three specifications share the variables:                               *)
(*   SpecRetry    one call of withRetry, any policy, any action            *)
(*   SpecProcess  one call of withBrowserRestart, any workflow/teardown    *)
(*   Spec         one run of updateResume                                  *)
(***************************************************************************)
EXTENDS Integers, Sequences, FiniteSets, TLC

(***************************************************************************)
(* Bounds of the model.                                                    *)
(***************************************************************************)
\* largest retry bound (maxRetries, MAX_RETRIES) that is explored
MaxRetries == 3

\* largest number of recordMeasurement calls that is explored
MaxMeasurements == 12

\* the selector lists handed to waitForAnySelector have up to MaxCandidates entries
MaxCandidates == 3

(***************************************************************************)
(* JavaScript values that are thrown or returned.  cls is the class of an  *)
(* Error instance ("Error", "NavigationError", ...) or the type of a value *)
(* that is no Error ("string", "undefined", "value"); msg is the message   *)
(* (or the string form) as a sequence of fragments; at tells the objects   *)
(* of different invocations apart (object identity).                       *)
(***************************************************************************)
JsValue(cls, msg, at) == [cls |-> cls, msg |-> msg, at |-> at]

Undefined == JsValue("undefined", <<>>, 0)

\* the value an invocation produces, as the object of invocation k
At(v, k) == [v EXCEPT !.at = k]

ErrorClasses ==
    {"Error", "JobKoreaError", "AuthenticationError", "NavigationError", "UpdateError"}

\* error instanceof Error
InstanceOfError(v) == v.cls \in ErrorClasses

\* error instanceof JobKoreaError
InstanceOfJobKoreaError(v) ==
    v.cls \in {"JobKoreaError", "AuthenticationError", "NavigationError", "UpdateError"}

\* String(error) of a value that is no Error
StringOf(v) == IF v.cls = "undefined" THEN <<"undefined">> ELSE v.msg

\* the code of a JobKoreaError
ErrorCode(v) ==
    CASE v.cls = "AuthenticationError" -> "AUTH_ERROR"
      [] v.cls = "NavigationError" -> "NAVIGATION_ERROR"
      [] v.cls = "UpdateError" -> "UPDATE_ERROR"
      [] OTHER -> "NONE"

\* lastError = error instanceof Error ? error : new Error(String(error))
ToErrorVerbatim(error) == error

ToError(error) ==
    IF InstanceOfError(error) THEN error
    ELSE JsValue("Error", StringOf(error), error.at)

\* let lastError: Error = new Error("No attempts made")
NoAttemptsMade == JsValue("Error", <<"No attempts made">>, 0)

Min(a, b) == IF a < b THEN a ELSE b

RECURSIVE Pow(_, _)
\* Math.pow(b, e) for integers b and e >= 0
Pow(b, e) == IF e = 0 THEN 1 ELSE b * Pow(b, e - 1)

(***************************************************************************)
(* Retry configuration (config/index.ts, defaultConfig.retry).             *)
(***************************************************************************)
DefaultMaxRetries == 3
BaseDelay == 2000
MaxDelay == 10000
BackoffMultiplier == 2

\* the options withRetry ends with when the caller gives only maxRetries
DefaultOptions(maxRetries) ==
    [maxRetries |-> maxRetries, baseDelay |-> BaseDelay, maxDelay |-> MaxDelay,
     backoffMultiplier |-> BackoffMultiplier]

VARIABLES
    \* ---- one call of withRetry
    rPc,           \* "idle", "loop", "sleeping", "returned", "rejected"
    rOpts,         \* maxRetries, baseDelay, maxDelay, backoffMultiplier
    rAttempt,      \* the loop variable attempt
    rLastError,    \* lastError
    rResult,       \* the value returned, or the value thrown
    rInvocations,  \* number of times fn was invoked
    rLastThrown,   \* what the latest invocation of fn rejected with
    rDelays,       \* the setTimeout delays, in order
    \* ---- one call of withBrowserRestart
    pPc,           \* "idle", "loop", "running", "restart", "sleeping", "returned", "rejected"
    pMaxRetries,   \* maxRetries
    pAttempt,      \* the loop variable attempt
    pLastError,    \* lastError
    pResult,       \* the value returned, or the value thrown
    pInvocations,  \* number of times fn (the workflow) was invoked
    pLastThrown,   \* what the latest invocation of fn rejected with
    pRestarts,     \* number of times browserRestartFn was invoked
    pRestartThrew, \* the attempts after which browserRestartFn threw
    pDelays,       \* the setTimeout delays, in order
    \* ---- one run of updateResume
    uPc,           \* "idle", "main", "refused", "process", "finishing", "exited"
    cfgMaxRetries, \* retryConfig.maxOperationRetries = retryConfig.maxProcessRetries
    retryCount,    \* retryCount
    wStep,         \* the step the workflow function is at
    stepLog,       \* the steps finished in the current process attempt, with outcome
    lastFailure,   \* where the last failed process attempt failed, after how many tries
    bs,            \* BrowserService: the fields page, context, browser (0 is null)
    openBrowsers,  \* the browsers launched and not closed
    svcPage,       \* JobKoreaService.page
    notifications, \* the messages handed to sendTelegramMessage
    posts,         \* the HTTP responses to the POSTs, in order
    nPc,           \* the notification task: "none", "sending", "fulfilled", "rejected"
    cPc,           \* the final browserService.close(): "none", "pending", "done"
    exitCodes,     \* the exit code of the process, once it has ended
    \* ---- the AdaptiveTimeoutManager instance
    metrics,       \* averageResponseTime, successRate, lastMeasurements, measurementCount
    adaptiveTimeout, \* what getAdaptiveTimeout returned last for the metrics as they are
    \* ---- JobKoreaService
    anySelector,   \* one call of waitForAnySelector
    careerUpdate,  \* one attempt of updateCareerInfo, from the click on the update button
    navigation,    \* one call of navigateToLoginPage: the attempts and what they left running
    \* ---- main and the signal handlers
    startup,       \* process.env as main finds it, and what main logged about it
    shutdown       \* the signal received and how far gracefulShutdown got

retryVars == <<rPc, rOpts, rAttempt, rLastError, rResult, rInvocations, rLastThrown, rDelays>>

procVars ==
    <<pPc, pMaxRetries, pAttempt, pLastError, pResult, pInvocations, pLastThrown,
      pRestarts, pRestartThrew, pDelays>>

flowVars == <<uPc, cfgMaxRetries, retryCount, wStep, stepLog, lastFailure, svcPage>>

browserVars == <<bs, openBrowsers>>

timeoutVars == <<metrics, adaptiveTimeout>>

notifyVars == <<notifications, posts, nPc, cPc, exitCodes>>

runVars == <<flowVars, browserVars, notifyVars>>

serviceVars == <<anySelector, careerUpdate, navigation>>

mainVars == <<startup, shutdown>>

restVars == <<timeoutVars, serviceVars, mainVars>>

vars == <<retryVars, procVars, runVars, timeoutVars, serviceVars, mainVars>>

(***************************************************************************)
(* withRetry                                                               *)
(***************************************************************************)
\* Math.min(baseDelay * Math.pow(backoffMultiplier, attempt - 1), maxDelay)
BackoffDelayOffByOne(opts, attempt) ==
    Min(opts.baseDelay * Pow(opts.backoffMultiplier, attempt), opts.maxDelay)

BackoffDelay(opts, attempt) ==
    Min(opts.baseDelay * Pow(opts.backoffMultiplier, attempt - 1), opts.maxDelay)

\* the call: the options are destructured, lastError is initialised, attempt = 1
RetryEnter(opts) ==
    /\ rPc' = "loop"
    /\ rOpts' = opts
    /\ rAttempt' = 1
    /\ rLastError' = NoAttemptsMade
    /\ rResult' = Undefined
    /\ rInvocations' = 0
    /\ rLastThrown' = Undefined
    /\ rDelays' = <<>>

\* the catch block's test that ends the loop
IsFinalAttemptFirst(attempt, maxRetries) == attempt = 1

IsFinalAttempt(attempt, maxRetries) == attempt = maxRetries

\* one pass through the loop body: fn is invoked and settles with (ok, v)
RetryIterateGivesUpOnJobKoreaError(ok, v) ==
    /\ rPc = "loop"
    /\ rAttempt <= rOpts.maxRetries
    /\ rInvocations' = rInvocations + 1
    /\ UNCHANGED <<rOpts, rAttempt>>
    /\ IF ok
       THEN /\ rPc' = "returned"
            /\ rResult' = v
            /\ UNCHANGED <<rLastError, rLastThrown, rDelays>>
       ELSE /\ rLastThrown' = v
            /\ rLastError' = ToError(v)
            /\ IF IsFinalAttempt(rAttempt, rOpts.maxRetries) \/ InstanceOfJobKoreaError(v)
               THEN /\ rPc' = "rejected"
                    /\ rResult' = ToError(v)
                    /\ UNCHANGED rDelays
               ELSE /\ rPc' = "sleeping"
                    /\ rDelays' = Append(rDelays, BackoffDelay(rOpts, rAttempt))
                    /\ UNCHANGED rResult

RetryIterate(ok, v) ==
    /\ rPc = "loop"
    /\ rAttempt <= rOpts.maxRetries
    /\ rInvocations' = rInvocations + 1
    /\ UNCHANGED <<rOpts, rAttempt>>
    /\ IF ok
       THEN /\ rPc' = "returned"
            /\ rResult' = v
            /\ UNCHANGED <<rLastError, rLastThrown, rDelays>>
       ELSE /\ rLastThrown' = v
            /\ rLastError' = ToError(v)
            /\ IF IsFinalAttempt(rAttempt, rOpts.maxRetries)
               THEN /\ rPc' = "rejected"
                    /\ rResult' = ToError(v)
                    /\ UNCHANGED rDelays
               ELSE /\ rPc' = "sleeping"
                    /\ rDelays' = Append(rDelays, BackoffDelay(rOpts, rAttempt))
                    /\ UNCHANGED rResult

\* the setTimeout of the catch block fires: attempt++
RetryWakeNoIncrement ==
    /\ rPc = "sleeping"
    /\ rPc' = "loop"
    /\ UNCHANGED <<rOpts, rAttempt, rLastError, rResult, rInvocations, rLastThrown, rDelays>>

RetryWake ==
    /\ rPc = "sleeping"
    /\ rPc' = "loop"
    /\ rAttempt' = rAttempt + 1
    /\ UNCHANGED <<rOpts, rLastError, rResult, rInvocations, rLastThrown, rDelays>>

\* the loop test fails: the throw lastError after the loop
RetryFallsThrough ==
    /\ rPc = "loop"
    /\ rAttempt > rOpts.maxRetries
    /\ rPc' = "rejected"
    /\ rResult' = rLastError
    /\ UNCHANGED <<rOpts, rAttempt, rLastError, rInvocations, rLastThrown, rDelays>>

\* no call of withRetry is in progress
RetryIdle ==
    /\ rPc = "idle"
    /\ rOpts = DefaultOptions(DefaultMaxRetries)
    /\ rAttempt = 0
    /\ rLastError = Undefined
    /\ rResult = Undefined
    /\ rInvocations = 0
    /\ rLastThrown = Undefined
    /\ rDelays = <<>>

(***************************************************************************)
(* withBrowserRestart                                                      *)
(***************************************************************************)
\* the call: maxRetries is destructured, lastError is initialised, attempt = 1
ProcessEnter(maxRetries) ==
    /\ pPc' = "loop"
    /\ pMaxRetries' = maxRetries
    /\ pAttempt' = 1
    /\ pLastError' = NoAttemptsMade
    /\ pResult' = Undefined
    /\ pInvocations' = 0
    /\ pLastThrown' = Undefined
    /\ pRestarts' = 0
    /\ pRestartThrew' = {}
    /\ pDelays' = <<>>

\* the loop test and the call of fn
ProcessInvoke ==
    /\ pPc = "loop"
    /\ pAttempt <= pMaxRetries
    /\ pPc' = "running"
    /\ pInvocations' = pInvocations + 1
    /\ UNCHANGED <<pMaxRetries, pAttempt, pLastError, pResult, pLastThrown, pRestarts,
                   pRestartThrew, pDelays>>

\* the catch block's test that ends the loop
IsFinalProcessAttempt(attempt, maxRetries) == attempt = maxRetries

\* lastError of the catch block
ProcessLastErrorKeepsFirst(last, error) ==
    IF last = NoAttemptsMade THEN ToError(error) ELSE last

ProcessLastError(last, error) == ToError(error)

\* fn settles with (ok, v): return, final throw, or on to the restart
ProcessSettleSkipsRestart(ok, v) ==
    /\ pPc = "running"
    /\ UNCHANGED <<pMaxRetries, pAttempt, pInvocations, pRestarts, pRestartThrew>>
    /\ IF ok
       THEN /\ pPc' = "returned"
            /\ pResult' = v
            /\ UNCHANGED <<pLastError, pLastThrown, pDelays>>
       ELSE /\ pLastThrown' = v
            /\ pLastError' = ProcessLastError(pLastError, v)
            /\ IF IsFinalProcessAttempt(pAttempt, pMaxRetries)
               THEN /\ pPc' = "rejected"
                    /\ pResult' = ProcessLastError(pLastError, v)
                    /\ UNCHANGED pDelays
               ELSE /\ pPc' = "sleeping"
                    /\ pDelays' = Append(pDelays, BaseDelay)
                    /\ UNCHANGED pResult

ProcessSettle(ok, v) ==
    /\ pPc = "running"
    /\ UNCHANGED <<pMaxRetries, pAttempt, pInvocations, pRestarts, pRestartThrew, pDelays>>
    /\ IF ok
       THEN /\ pPc' = "returned"
            /\ pResult' = v
            /\ UNCHANGED <<pLastError, pLastThrown>>
       ELSE /\ pLastThrown' = v
            /\ pLastError' = ProcessLastError(pLastError, v)
            /\ IF IsFinalProcessAttempt(pAttempt, pMaxRetries)
               THEN /\ pPc' = "rejected"
                    /\ pResult' = ProcessLastError(pLastError, v)
               ELSE /\ pPc' = "restart"
                    /\ UNCHANGED pResult

\* the delay of the setTimeout after the restart, were it the backoff of withRetry
RestartDelayExponential(attempt) == BackoffDelay(DefaultOptions(DefaultMaxRetries), attempt)

\* the delay of the setTimeout after the restart: retryConfig.baseDelay
RestartDelay(attempt) == BaseDelay

\* browserRestartFn is invoked and settles with (ok, v); a rejection is logged
\* and swallowed; then the setTimeout of retryConfig.baseDelay is started
ProcessRestartSettlePropagates(ok, v) ==
    /\ pPc = "restart"
    /\ pRestarts' = pRestarts + 1
    /\ UNCHANGED <<pMaxRetries, pAttempt, pLastError, pInvocations, pLastThrown>>
    /\ IF ok
       THEN /\ pPc' = "sleeping"
            /\ pDelays' = Append(pDelays, RestartDelay(pAttempt))
            /\ UNCHANGED <<pResult, pRestartThrew>>
       ELSE /\ pPc' = "rejected"
            /\ pResult' = ToError(v)
            /\ pRestartThrew' = pRestartThrew \cup {pAttempt}
            /\ UNCHANGED pDelays

ProcessRestartSettle(ok, v) ==
    /\ pPc = "restart"
    /\ pPc' = "sleeping"
    /\ pRestarts' = pRestarts + 1
    /\ pRestartThrew' = IF ok THEN pRestartThrew ELSE pRestartThrew \cup {pAttempt}
    /\ pDelays' = Append(pDelays, RestartDelay(pAttempt))
    /\ UNCHANGED <<pMaxRetries, pAttempt, pLastError, pResult, pInvocations, pLastThrown>>

\* the setTimeout fires, were attempt left as it is
ProcessWakeNoIncrement ==
    /\ pPc = "sleeping"
    /\ pPc' = "loop"
    /\ UNCHANGED <<pMaxRetries, pAttempt, pLastError, pResult, pInvocations, pLastThrown,
                   pRestarts, pRestartThrew, pDelays>>

\* the setTimeout fires: attempt++
ProcessWake ==
    /\ pPc = "sleeping"
    /\ pPc' = "loop"
    /\ pAttempt' = pAttempt + 1
    /\ UNCHANGED <<pMaxRetries, pLastError, pResult, pInvocations, pLastThrown, pRestarts,
                   pRestartThrew, pDelays>>

\* the loop test fails: the throw lastError after the loop
ProcessFallsThrough ==
    /\ pPc = "loop"
    /\ pAttempt > pMaxRetries
    /\ pPc' = "rejected"
    /\ pResult' = pLastError
    /\ UNCHANGED <<pMaxRetries, pAttempt, pLastError, pInvocations, pLastThrown, pRestarts,
                   pRestartThrew, pDelays>>

\* no call of withBrowserRestart is in progress
ProcessIdle ==
    /\ pPc = "idle"
    /\ pMaxRetries = DefaultMaxRetries
    /\ pAttempt = 0
    /\ pLastError = Undefined
    /\ pResult = Undefined
    /\ pInvocations = 0
    /\ pLastThrown = Undefined
    /\ pRestarts = 0
    /\ pRestartThrew = {}
    /\ pDelays = <<>>

\* the locals of a call of withRetry go out of scope
RetryLeave ==
    /\ rPc' = "idle"
    /\ rOpts' = DefaultOptions(DefaultMaxRetries)
    /\ rAttempt' = 0
    /\ rLastError' = Undefined
    /\ rResult' = Undefined
    /\ rInvocations' = 0
    /\ rLastThrown' = Undefined
    /\ rDelays' = <<>>

(***************************************************************************)
(* BrowserService                                                          *)
(***************************************************************************)
NoSession == [page |-> 0, context |-> 0, browser |-> 0]

\* initialize() up to the await that throws: "launch", "context" (newContext),
\* "page" (route, newPage), "headers" (setExtraHTTPHeaders), or "none"
InitializeFields(id, failAt) ==
    CASE failAt = "launch" -> bs
      [] failAt = "context" -> [bs EXCEPT !.browser = id]
      [] failAt = "page" -> [bs EXCEPT !.browser = id, !.context = id]
      [] OTHER -> [page |-> id, context |-> id, browser |-> id]

InitializeFailures == {"launch", "context", "page", "headers"}

\* close(): the awaits that can throw are those of the fields that are set
CloseFailures ==
    {"none"} \cup (IF bs.page # 0 THEN {"page"} ELSE {})
             \cup (IF bs.context # 0 THEN {"context"} ELSE {})
             \cup (IF bs.browser # 0 THEN {"browser"} ELSE {})

\* close(): page, context and browser are closed in turn; the catch block only
\* sets the fields to null.  A browser.close() that throws may or may not
\* have ended the browser (stillOpen).
BrowserClose(failAt, stillOpen) ==
    /\ failAt \in CloseFailures
    /\ bs' = NoSession
    /\ openBrowsers' =
          IF failAt = "none" \/ (failAt = "browser" /\ ~stillOpen)
          THEN openBrowsers \ {bs.browser}
          ELSE openBrowsers

(***************************************************************************)
(* JobKoreaService: the steps of the workflow                              *)
(***************************************************************************)
StepOrder ==
    <<"NavigateLogin", "Authenticate", "DismissPopup", "NavigateMypage", "TriggerUpdate">>

\* the steps that are wrapped in withRetry
RetriedSteps == {"NavigateLogin", "Authenticate", "NavigateMypage", "TriggerUpdate"}

\* what the browser driver rejects with
DriverErrors == {JsValue("Error", <<"Timeout exceeded">>, 0)}

\* updateCareerInfo: the failures inside the try block of one attempt
UpdateFailures ==
    DriverErrors \cup {JsValue("UpdateError", <<"unexpected dialog">>, 0)}

\* updateCareerInfo: the catch block of one attempt
UpdateCatch(error) ==
    IF error.cls \in {"UpdateError", "NavigationError", "AuthenticationError"}
    THEN error
    ELSE JsValue("UpdateError",
                 <<"update failed: ">> \o (IF InstanceOfError(error) THEN error.msg
                                           ELSE StringOf(error)),
                 error.at)

\* what one attempt of a step's action rejects with
StepThrown(step) ==
    IF step = "TriggerUpdate" THEN {UpdateCatch(e) : e \in UpdateFailures}
    ELSE DriverErrors

\* the step rejects with what its withRetry rejected with
StepErrorUnwrapped(step, error) == error

\* the .catch of the step's withRetry: the error the step rejects with
StepError(step, error) ==
    CASE step = "NavigateLogin" -> JsValue("NavigationError", <<"login page failed">>, error.at)
      [] step = "Authenticate" -> JsValue("AuthenticationError", <<"login failed">>, error.at)
      [] step = "NavigateMypage" -> JsValue("NavigationError", <<"mypage failed">>, error.at)
      [] OTHER -> error

\* a finished step of the current process attempt
StepDone(step, outcome) == [step |-> step, outcome |-> outcome]

\* no process attempt has failed yet
NoFailure == [step |-> "none", tries |-> 0]

(***************************************************************************)
(* updateResume                                                            *)
(***************************************************************************)
\* updateResume has not been called
RunIdle ==
    /\ uPc = "idle"
    /\ cfgMaxRetries = DefaultMaxRetries
    /\ retryCount = 0
    /\ wStep = "none"
    /\ stepLog = <<>>
    /\ lastFailure = NoFailure
    /\ bs = NoSession
    /\ openBrowsers = {}
    /\ svcPage = 0
    /\ notifications = <<>>
    /\ posts = <<>>
    /\ nPc = "none"
    /\ cPc = "none"
    /\ exitCodes = {}

\* sendSuccessNotification: retryInfo (<<>> is the empty string)
SuccessRetryInfoCountsAttempts(count) == IF count > 1 THEN <<count>> ELSE <<>>

SuccessRetryInfo(count) == IF count > 1 THEN <<count - 1>> ELSE <<>>

\* sendSuccessNotification: the message
SuccessMessage(count) ==
    [kind |-> "success", reason |-> <<>>, code |-> "NONE",
     retryInfo |-> SuccessRetryInfo(count)]

\* escapeHtml, fragment by fragment
EscapeHtml(msg) ==
    [i \in DOMAIN msg |->
        CASE msg[i] = "&" -> "&amp;"
          [] msg[i] = "<" -> "&lt;"
          [] msg[i] = ">" -> "&gt;"
          [] OTHER -> msg[i]]

\* handleError: the message
FailureMessageCountsRestarts(error, count) ==
    [kind |-> "failure",
     reason |-> EscapeHtml(IF InstanceOfError(error) THEN error.msg ELSE <<"unknown error">>),
     code |-> IF InstanceOfJobKoreaError(error) THEN ErrorCode(error) ELSE "NONE",
     retryInfo |-> IF count > 1 THEN <<count - 1>> ELSE <<>>]

FailureMessage(error, count) ==
    [kind |-> "failure",
     reason |-> EscapeHtml(IF InstanceOfError(error) THEN error.msg ELSE <<"unknown error">>),
     code |-> IF InstanceOfJobKoreaError(error) THEN ErrorCode(error) ELSE "NONE",
     retryInfo |-> IF count > 0 THEN <<count>> ELSE <<>>]

\* the workflow function is entered: retryCount++, browserService.initialize()
WorkflowStartResumes ==
    /\ uPc = "process"
    /\ ProcessInvoke
    /\ retryCount' = retryCount + 1
    /\ IF lastFailure.step \in RetriedSteps
       THEN /\ wStep' = lastFailure.step
            /\ RetryEnter(DefaultOptions(cfgMaxRetries))
            /\ UNCHANGED stepLog
       ELSE /\ wStep' = "Initialize"
            /\ stepLog' = <<>>
            /\ UNCHANGED retryVars
    /\ UNCHANGED <<uPc, cfgMaxRetries, lastFailure, svcPage, browserVars, notifyVars>>
    /\ UNCHANGED restVars

WorkflowStart ==
    /\ uPc = "process"
    /\ ProcessInvoke
    /\ retryCount' = retryCount + 1
    /\ wStep' = "Initialize"
    /\ stepLog' = <<>>
    /\ UNCHANGED <<uPc, cfgMaxRetries, lastFailure, svcPage, retryVars, browserVars, notifyVars>>
    /\ UNCHANGED restVars

\* initialize() resolves; getPage(); new JobKoreaService(page);
\* navigateToLoginPage() calls withRetry
InitializeResolves ==
    /\ uPc = "process"
    /\ wStep = "Initialize"
    /\ bs' = InitializeFields(retryCount, "none")
    /\ openBrowsers' = openBrowsers \cup {retryCount}
    /\ svcPage' = retryCount
    /\ wStep' = "NavigateLogin"
    /\ RetryEnter(DefaultOptions(cfgMaxRetries))
    /\ UNCHANGED <<uPc, cfgMaxRetries, retryCount, stepLog, lastFailure, procVars, notifyVars>>
    /\ UNCHANGED restVars

\* initialize() rethrows what one of its awaits threw: the workflow rejects
InitializeRejects ==
    /\ uPc = "process"
    /\ wStep = "Initialize"
    /\ \E failAt \in InitializeFailures :
          /\ bs' = InitializeFields(retryCount, failAt)
          /\ openBrowsers' =
                IF failAt = "launch" THEN openBrowsers ELSE openBrowsers \cup {retryCount}
    /\ \E e \in DriverErrors : ProcessSettle(FALSE, At(e, retryCount))
    /\ wStep' = "none"
    /\ lastFailure' = [step |-> "Initialize", tries |-> 0]
    /\ UNCHANGED <<uPc, cfgMaxRetries, retryCount, stepLog, svcPage, retryVars, notifyVars>>
    /\ UNCHANGED restVars

\* one attempt of the action of a retried step resolves
StepAttemptResolves ==
    /\ uPc = "process"
    /\ wStep \in RetriedSteps
    /\ RetryIterate(TRUE, At(Undefined, retryCount))
    /\ UNCHANGED <<procVars, runVars>>
    /\ UNCHANGED restVars

\* one attempt of the action of a retried step rejects
StepAttemptRejects ==
    /\ uPc = "process"
    /\ wStep \in RetriedSteps
    /\ \E e \in StepThrown(wStep) : RetryIterate(FALSE, At(e, retryCount))
    /\ UNCHANGED <<procVars, runVars>>
    /\ UNCHANGED restVars

\* the delay between two attempts of a step is over
StepBackoff ==
    /\ uPc = "process"
    /\ wStep \in RetriedSteps
    /\ RetryWake
    /\ UNCHANGED <<procVars, runVars>>
    /\ UNCHANGED restVars

\* await of a step: the next statement runs only when the step resolved
StepSucceededOrFailed(pc) == pc \in {"returned", "rejected"}

StepSucceeded(pc) == pc = "returned"

StepOutcome(pc) == IF pc = "returned" THEN "ok" ELSE "failed"

\* navigateToLoginPage() resolved; login() calls withRetry
LoginPageReached ==
    /\ uPc = "process"
    /\ wStep = "NavigateLogin"
    /\ StepSucceeded(rPc)
    /\ stepLog' = Append(stepLog, StepDone(wStep, StepOutcome(rPc)))
    /\ wStep' = "Authenticate"
    /\ RetryEnter(DefaultOptions(cfgMaxRetries))
    /\ UNCHANGED <<uPc, cfgMaxRetries, retryCount, lastFailure, svcPage, procVars, browserVars,
                   notifyVars>>
    /\ UNCHANGED restVars

\* login() resolved; handleLoginPopup() is called
Authenticated ==
    /\ uPc = "process"
    /\ wStep = "Authenticate"
    /\ StepSucceeded(rPc)
    /\ stepLog' = Append(stepLog, StepDone(wStep, StepOutcome(rPc)))
    /\ wStep' = "DismissPopup"
    /\ RetryLeave
    /\ UNCHANGED <<uPc, cfgMaxRetries, retryCount, lastFailure, svcPage, procVars, browserVars,
                   notifyVars>>
    /\ UNCHANGED restVars

\* handleLoginPopup: the awaits of its try block, any of which may reject
PopupFailures == {"none", "popup", "link", "dialog", "dismiss"}

\* handleLoginPopup without its catch block: only the missing popup is taken
\* as normal
HandleLoginPopupRaises(failAt) ==
    IF failAt = "none" THEN [resolved |-> TRUE, outcome |-> "ok"]
    ELSE IF failAt = "popup" THEN [resolved |-> TRUE, outcome |-> "absorbed"]
    ELSE [resolved |-> FALSE, outcome |-> "failed"]

\* handleLoginPopup: the popup was handled ("ok"), or the catch block logged
\* what went wrong at failAt ("absorbed"); it resolves either way
HandleLoginPopup(failAt) ==
    IF failAt = "none" THEN [resolved |-> TRUE, outcome |-> "ok"]
    ELSE [resolved |-> TRUE, outcome |-> "absorbed"]

\* await handleLoginPopup(): when it resolves navigateToMypage() calls
\* withRetry; a rejection would be the rejection of the workflow function
PopupDismissed ==
    /\ uPc = "process"
    /\ wStep = "DismissPopup"
    /\ \E failAt \in PopupFailures :
          LET popup == HandleLoginPopup(failAt)
          IN  /\ stepLog' = Append(stepLog, StepDone(wStep, popup.outcome))
              /\ IF popup.resolved
                 THEN /\ wStep' = "NavigateMypage"
                      /\ RetryEnter(DefaultOptions(cfgMaxRetries))
                      /\ UNCHANGED <<lastFailure, procVars>>
                 ELSE /\ wStep' = "none"
                      /\ lastFailure' = [step |-> wStep, tries |-> 1]
                      /\ \E e \in DriverErrors : ProcessSettle(FALSE, At(e, retryCount))
                      /\ UNCHANGED retryVars
    /\ UNCHANGED <<uPc, cfgMaxRetries, retryCount, svcPage, browserVars, notifyVars>>
    /\ UNCHANGED restVars

\* navigateToMypage() resolved; updateCareerInfo() calls withRetry
MypageReached ==
    /\ uPc = "process"
    /\ wStep = "NavigateMypage"
    /\ StepSucceeded(rPc)
    /\ stepLog' = Append(stepLog, StepDone(wStep, StepOutcome(rPc)))
    /\ wStep' = "TriggerUpdate"
    /\ RetryEnter(DefaultOptions(cfgMaxRetries))
    /\ UNCHANGED <<uPc, cfgMaxRetries, retryCount, lastFailure, svcPage, procVars, browserVars,
                   notifyVars>>
    /\ UNCHANGED restVars

\* updateCareerInfo() resolved; the workflow function returns
UpdateDone ==
    /\ uPc = "process"
    /\ wStep = "TriggerUpdate"
    /\ StepSucceeded(rPc)
    /\ stepLog' = Append(stepLog, StepDone(wStep, StepOutcome(rPc)))
    /\ wStep' = "Done"
    /\ RetryLeave
    /\ ProcessSettle(TRUE, Undefined)
    /\ UNCHANGED <<uPc, cfgMaxRetries, retryCount, lastFailure, svcPage, browserVars, notifyVars>>
    /\ UNCHANGED restVars

\* the withRetry of a step rejected: the step rejects with its domain error and
\* so does the workflow function
StepFails ==
    /\ uPc = "process"
    /\ wStep \in RetriedSteps
    /\ rPc = "rejected"
    /\ stepLog' = Append(stepLog, StepDone(wStep, "failed"))
    /\ lastFailure' = [step |-> wStep, tries |-> rInvocations]
    /\ ProcessSettle(FALSE, StepError(wStep, rResult))
    /\ wStep' = "none"
    /\ RetryLeave
    /\ UNCHANGED <<uPc, cfgMaxRetries, retryCount, svcPage, browserVars, notifyVars>>
    /\ UNCHANGED restVars

\* the restart function of updateResume: browserService.close(), then 1000 ms
RestartBrowser ==
    /\ uPc = "process"
    /\ \E failAt \in CloseFailures, stillOpen \in BOOLEAN : BrowserClose(failAt, stillOpen)
    /\ ProcessRestartSettle(TRUE, Undefined)
    /\ UNCHANGED <<flowVars, retryVars, notifyVars>>
    /\ UNCHANGED restVars

\* the delay between two process attempts is over
RestartDelayOver ==
    /\ uPc = "process"
    /\ ProcessWake
    /\ UNCHANGED <<retryVars, runVars>>
    /\ UNCHANGED restVars

\* withBrowserRestart resolved: Promise.allSettled([sendSuccessNotification(..),
\* browserService.close()]); sendTelegramMessage calls withRetry
FinishSuccess ==
    /\ uPc = "process"
    /\ pPc = "returned"
    /\ uPc' = "finishing"
    /\ notifications' = Append(notifications, SuccessMessage(retryCount))
    /\ RetryEnter(DefaultOptions(cfgMaxRetries))
    /\ nPc' = "sending"
    /\ cPc' = "pending"
    /\ UNCHANGED <<cfgMaxRetries, retryCount, wStep, stepLog, lastFailure, svcPage, posts,
                   exitCodes, procVars, browserVars>>
    /\ UNCHANGED restVars

\* withBrowserRestart rejected: Promise.allSettled([handleError(error, ..),
\* browserService.close()])
FinishFailureSilent ==
    /\ uPc = "process"
    /\ pPc = "rejected"
    /\ uPc' = "finishing"
    /\ nPc' = "rejected"
    /\ cPc' = "pending"
    /\ UNCHANGED <<cfgMaxRetries, retryCount, wStep, stepLog, lastFailure, svcPage, posts,
                   notifications, exitCodes, procVars, retryVars, browserVars>>
    /\ UNCHANGED restVars

FinishFailure ==
    /\ uPc = "process"
    /\ pPc = "rejected"
    /\ uPc' = "finishing"
    /\ notifications' = Append(notifications, FailureMessage(pResult, retryCount))
    /\ RetryEnter(DefaultOptions(cfgMaxRetries))
    /\ nPc' = "sending"
    /\ cPc' = "pending"
    /\ UNCHANGED <<cfgMaxRetries, retryCount, wStep, stepLog, lastFailure, svcPage, posts,
                   exitCodes, procVars, browserVars>>
    /\ UNCHANGED restVars

\* sendTelegramMessage: the POST is answered 2xx
PostResolves ==
    /\ uPc = "finishing"
    /\ nPc = "sending"
    /\ RetryIterate(TRUE, JsValue("value", <<"telegram result">>, rAttempt))
    /\ posts' = Append(posts, "2xx")
    /\ UNCHANGED <<procVars, flowVars, browserVars, notifications, nPc, cPc, exitCodes>>
    /\ UNCHANGED restVars

\* sendTelegramMessage: the POST is answered 4xx or 5xx, or fetch rejects
PostRejects ==
    /\ uPc = "finishing"
    /\ nPc = "sending"
    /\ \E status \in {"4xx", "5xx", "network"} :
          /\ RetryIterate(FALSE, JsValue("Error", <<"Telegram API error", status>>, rAttempt))
          /\ posts' = Append(posts, status)
    /\ UNCHANGED <<procVars, flowVars, browserVars, notifications, nPc, cPc, exitCodes>>
    /\ UNCHANGED restVars

\* sendTelegramMessage: the POST is answered 2xx and response.json() rejects
PostUnreadable ==
    /\ uPc = "finishing"
    /\ nPc = "sending"
    /\ RetryIterate(FALSE, JsValue("Error", <<"Unexpected end of JSON input">>, rAttempt))
    /\ posts' = Append(posts, "2xx")
    /\ UNCHANGED <<procVars, flowVars, browserVars, notifications, nPc, cPc, exitCodes>>
    /\ UNCHANGED restVars

\* the delay between two POSTs is over
NotifyBackoff ==
    /\ uPc = "finishing"
    /\ nPc = "sending"
    /\ RetryWake
    /\ UNCHANGED <<procVars, runVars>>
    /\ UNCHANGED restVars

\* sendSuccessNotification / handleError settles as sendTelegramMessage did
NotifySettled ==
    /\ uPc = "finishing"
    /\ nPc = "sending"
    /\ rPc \in {"returned", "rejected"}
    /\ nPc' = IF rPc = "returned" THEN "fulfilled" ELSE "rejected"
    /\ RetryLeave
    /\ UNCHANGED <<procVars, flowVars, browserVars, notifications, posts, cPc, exitCodes>>
    /\ UNCHANGED restVars

\* the browserService.close() of the allSettled
FinalClose ==
    /\ uPc = "finishing"
    /\ cPc = "pending"
    /\ \E failAt \in CloseFailures, stillOpen \in BOOLEAN : BrowserClose(failAt, stillOpen)
    /\ cPc' = "done"
    /\ UNCHANGED <<procVars, retryVars, flowVars, notifications, posts, nPc, exitCodes>>
    /\ UNCHANGED restVars

\* the process ends as soon as the notification has settled
ExitWithoutClose ==
    /\ uPc = "finishing"
    /\ nPc \in {"fulfilled", "rejected"}
    /\ pPc = "returned" => shutdown.pc # "closing"
    /\ uPc' = "exited"
    /\ exitCodes' = IF pPc = "returned" THEN {0} ELSE {1}
    /\ UNCHANGED <<cfgMaxRetries, retryCount, wStep, stepLog, lastFailure, svcPage, procVars,
                   retryVars, browserVars, notifications, posts, nPc, cPc>>
    /\ UNCHANGED restVars

\* allSettled has settled: updateResume returns (exit code 0) or process.exit(1)
ExitOnNotifyFailure ==
    /\ uPc = "finishing"
    /\ nPc \in {"fulfilled", "rejected"}
    /\ cPc = "done"
    /\ pPc = "returned" => shutdown.pc # "closing"
    /\ uPc' = "exited"
    /\ exitCodes' = IF pPc = "returned" /\ nPc = "fulfilled" THEN {0} ELSE {1}
    /\ UNCHANGED <<cfgMaxRetries, retryCount, wStep, stepLog, lastFailure, svcPage, procVars,
                   retryVars, browserVars, notifications, posts, nPc, cPc>>
    /\ UNCHANGED restVars

Exit ==
    /\ uPc = "finishing"
    /\ nPc \in {"fulfilled", "rejected"}
    /\ cPc = "done"
    /\ pPc = "returned" => shutdown.pc # "closing"
    /\ uPc' = "exited"
    /\ exitCodes' = IF pPc = "returned" THEN {0} ELSE {1}
    /\ UNCHANGED <<cfgMaxRetries, retryCount, wStep, stepLog, lastFailure, svcPage, procVars,
                   retryVars, browserVars, notifications, posts, nPc, cPc>>
    /\ UNCHANGED restVars

(***************************************************************************)
(* main: the environment is validated before updateResume is called.  An  *)
(* environment variable is unset, the empty string, a string that the      *)
(* format rules of validateConfig turn down, or a string they let pass.    *)
(***************************************************************************)
\* requiredVars, in the order of the array
RequiredOrder == <<"JOBKOREA_ID", "JOBKOREA_PWD", "TELEGRAM_BOT_TOKEN", "TELEGRAM_CHAT_ID">>

RequiredVars == {RequiredOrder[k] : k \in DOMAIN RequiredOrder}

EnvValues == {"unset", "empty", "malformed", "valid"}

\* !value
IsFalsy(value) == value \in {"unset", "empty"}

\* `환경변수 ${varName}이 설정되지 않았습니다.`
EnvError(varName) == <<"environment variable not set", varName>>

\* the errors logged for values that fail the format rules
ConfigError(varName) == <<"configuration value invalid", varName>>

\* validateEnvironmentVariables, were the loop left at the first missing value
ValidateEnvironmentVariablesFirstOnly(env) ==
    LET missing == SelectSeq(RequiredOrder, LAMBDA v : IsFalsy(env[v]))
    IN  IF missing = <<>> THEN <<>> ELSE <<EnvError(Head(missing))>>

\* validateEnvironmentVariables: one error for each required variable whose
\* value is falsy, in the order of requiredVars
ValidateEnvironmentVariables(env) ==
    LET missing == SelectSeq(RequiredOrder, LAMBDA v : IsFalsy(env[v]))
    IN  [k \in DOMAIN missing |-> EnvError(missing[k])]

\* validateConfig, called with values that are all set
ValidateConfig(env) ==
    LET bad == SelectSeq(RequiredOrder, LAMBDA v : env[v] # "valid")
    IN  [k \in DOMAIN bad |-> ConfigError(bad[k])]

\* the environment is complete and well-formed and main has logged nothing
NoStartup == [env |-> [v \in RequiredVars |-> "valid"], errors |-> <<>>]

\* envValidation.isValid is false: every error is logged, process.exit(1)
MainRefusesEnvironment ==
    /\ uPc = "main"
    /\ ValidateEnvironmentVariables(startup.env) # <<>>
    /\ startup' = [startup EXCEPT !.errors = ValidateEnvironmentVariables(startup.env)]
    /\ uPc' = "refused"
    /\ exitCodes' = {1}
    /\ UNCHANGED <<cfgMaxRetries, retryCount, wStep, stepLog, lastFailure, svcPage, browserVars,
                   notifications, posts, nPc, cPc, retryVars, procVars, timeoutVars,
                   serviceVars, shutdown>>

\* configValidation.isValid is false: process.exit(1)
MainRefusesConfig ==
    /\ uPc = "main"
    /\ ValidateEnvironmentVariables(startup.env) = <<>>
    /\ ValidateConfig(startup.env) # <<>>
    /\ startup' = [startup EXCEPT !.errors = ValidateConfig(startup.env)]
    /\ uPc' = "refused"
    /\ exitCodes' = {1}
    /\ UNCHANGED <<cfgMaxRetries, retryCount, wStep, stepLog, lastFailure, svcPage, browserVars,
                   notifications, posts, nPc, cPc, retryVars, procVars, timeoutVars,
                   serviceVars, shutdown>>

\* both validations pass: updateResume(config) registers the signal handlers
\* and calls withBrowserRestart
MainStarts ==
    /\ uPc = "main"
    /\ ValidateEnvironmentVariables(startup.env) = <<>>
    /\ ValidateConfig(startup.env) = <<>>
    /\ uPc' = "process"
    /\ ProcessEnter(cfgMaxRetries)
    /\ UNCHANGED <<cfgMaxRetries, retryCount, wStep, stepLog, lastFailure, svcPage, browserVars,
                   notifyVars, retryVars, timeoutVars, serviceVars, mainVars>>

(***************************************************************************)
(* The handlers of SIGINT and SIGTERM that updateResume registers.  One    *)
(* signal is followed; the handler runs beside whatever updateResume is    *)
(* doing, and the first process.exit that is reached ends the process.     *)
(***************************************************************************)
SignalNames == {"SIGINT", "SIGTERM"}

\* signalCodes[signal] ?? 1
SignalCode(signal) ==
    CASE signal = "SIGINT" -> 130
      [] signal = "SIGTERM" -> 143
      [] OTHER -> 1

\* no signal has arrived
NoShutdown == [signal |-> "none", pc |-> "none", during |-> <<>>]

\* the signal arrives: gracefulShutdown(signal) calls browserService.close().
\* With no field of the BrowserService set close() has nothing to await, and
\* process.exit(code) follows before any other task gets its turn; otherwise
\* the handler waits for the driver.  during keeps what updateResume, its
\* notification and its own close() were at when the signal came.
SignalArrives(signal) ==
    /\ uPc \in {"process", "finishing"}
    /\ shutdown.pc = "none"
    /\ IF bs = NoSession
       THEN /\ shutdown' = [signal |-> signal, pc |-> "exited", during |-> <<uPc, nPc, cPc>>]
            /\ uPc' = "exited"
            /\ exitCodes' = {SignalCode(signal)}
       ELSE /\ shutdown' = [signal |-> signal, pc |-> "closing", during |-> <<uPc, nPc, cPc>>]
            /\ UNCHANGED <<uPc, exitCodes>>

\* the close() of gracefulShutdown has settled: process.exit(code)
GracefulShutdownExits ==
    /\ uPc \in {"process", "finishing"}
    /\ shutdown.pc = "closing"
    /\ \E failAt \in CloseFailures, stillOpen \in BOOLEAN : BrowserClose(failAt, stillOpen)
    /\ shutdown' = [shutdown EXCEPT !.pc = "exited"]
    /\ uPc' = "exited"
    /\ exitCodes' = {SignalCode(shutdown.signal)}

(***************************************************************************)
(* AdaptiveTimeoutManager.  A JavaScript number that is a fraction is a    *)
(* pair <<numerator, denominator>> with a positive denominator; the        *)
(* fractions that occur are far from the rounding and comparison points,   *)
(* so their exact value decides as the double does.                        *)
(***************************************************************************)
RatLess(a, b) == a[1] * b[2] < b[1] * a[2]

RatEq(a, b) == a[1] * b[2] = b[1] * a[2]

RatMul(a, b) == <<a[1] * b[1], a[2] * b[2]>>

\* Math.max
RatMax(a, b) == IF RatLess(a, b) THEN b ELSE a

\* Math.min
RatMin(a, b) == IF RatLess(b, a) THEN b ELSE a

\* Math.round: the nearest integer, halves upwards (the values are >= 0)
RatRound(a) == (2 * a[1] + a[2]) \div (2 * a[2])

RECURSIVE Sum(_)
\* lastMeasurements.reduce((sum, time) => sum + time, 0)
Sum(seq) == IF seq = <<>> THEN 0 ELSE Head(seq) + Sum(Tail(seq))

\* private config of the manager
BaseTimeout == 15000

MinTimeout == 5000

MaxTimeout == 30000

MeasurementWindow == 10

SuccessThreshold == <<4, 5>>

FailureMultiplier == <<3, 2>>

SuccessMultiplier == <<9, 10>>

\* getAdaptiveTimeout: the literals 3, 0.95 and 2.5
MinMeasurements == 3

HighSuccessRate == <<19, 20>>

ResponseMargin == <<5, 2>>

OperationTypes == {"navigation", "element", "popup", "network"}

\* getAdaptiveTimeout: the switch
BaseTimeoutOf(operationType) ==
    CASE operationType = "navigation" -> 20000
      [] operationType = "element" -> 15000
      [] operationType = "popup" -> 10000
      [] operationType = "network" -> 8000
      [] OTHER -> BaseTimeout

\* the metrics of a new manager, and after resetMetrics
InitialMetrics ==
    [averageResponseTime |-> <<0, 1>>, successRate |-> <<1, 1>>,
     lastMeasurements |-> <<>>, measurementCount |-> 0]

\* no getAdaptiveTimeout has returned for the metrics as they are
NoTimeout == [operationType |-> "none", timeout |-> 0]

\* recordMeasurement: lastMeasurements after the push and the shift
PushedNoShift(measurements, responseTime) == Append(measurements, responseTime)

\* recordMeasurement, were the newest sample dropped from a full window (pop)
PushedEvictsNewest(measurements, responseTime) ==
    IF Len(measurements) + 1 > MeasurementWindow
    THEN Append(SubSeq(measurements, 1, Len(measurements) - 1), responseTime)
    ELSE Append(measurements, responseTime)

Pushed(measurements, responseTime) ==
    IF Len(measurements) + 1 > MeasurementWindow
    THEN Tail(Append(measurements, responseTime))
    ELSE Append(measurements, responseTime)

\* recordMeasurement: the metrics it leaves
RecordedCountsSuccessesOnly(m, responseTime, success) ==
    LET measurements == IF success THEN Pushed(m.lastMeasurements, responseTime)
                        ELSE m.lastMeasurements
        count == IF success THEN m.measurementCount + 1 ELSE m.measurementCount
    IN  [averageResponseTime |-> IF success THEN <<Sum(measurements), Len(measurements)>>
                                 ELSE m.averageResponseTime,
         successRate |-> IF count = 0 THEN m.successRate
                         ELSE <<Len(measurements), Min(MeasurementWindow, count)>>,
         lastMeasurements |-> measurements,
         measurementCount |-> count]

Recorded(m, responseTime, success) ==
    LET measurements == IF success THEN Pushed(m.lastMeasurements, responseTime)
                        ELSE m.lastMeasurements
        count == m.measurementCount + 1
    IN  [averageResponseTime |-> IF success THEN <<Sum(measurements), Len(measurements)>>
                                 ELSE m.averageResponseTime,
         successRate |-> <<Len(measurements), Min(MeasurementWindow, count)>>,
         lastMeasurements |-> measurements,
         measurementCount |-> count]

\* getAdaptiveTimeout: the factor for the success rate
RateFactorOnlyShortens(successRate) ==
    IF RatLess(HighSuccessRate, successRate) THEN SuccessMultiplier ELSE <<1, 1>>

RateFactor(successRate) ==
    IF RatLess(successRate, SuccessThreshold) THEN FailureMultiplier
    ELSE IF RatLess(HighSuccessRate, successRate) THEN SuccessMultiplier
    ELSE <<1, 1>>

\* getAdaptiveTimeout: the value before it is limited and rounded
UnlimitedNoFloor(m, operationType) ==
    RatMul(<<BaseTimeoutOf(operationType), 1>>, RateFactor(m.successRate))

Unlimited(m, operationType) ==
    LET adjusted == RatMul(<<BaseTimeoutOf(operationType), 1>>, RateFactor(m.successRate))
    IN  IF RatLess(<<0, 1>>, m.averageResponseTime)
        THEN RatMax(adjusted, RatMul(m.averageResponseTime, ResponseMargin))
        ELSE adjusted

\* getAdaptiveTimeout
AdaptiveTimeoutUnlimited(m, operationType) ==
    IF m.measurementCount < MinMeasurements
    THEN BaseTimeoutOf(operationType)
    ELSE RatRound(Unlimited(m, operationType))

AdaptiveTimeoutEager(m, operationType) ==
    RatRound(RatMax(<<MinTimeout, 1>>,
                    RatMin(<<MaxTimeout, 1>>, Unlimited(m, operationType))))

AdaptiveTimeout(m, operationType) ==
    IF m.measurementCount < MinMeasurements
    THEN BaseTimeoutOf(operationType)
    ELSE RatRound(RatMax(<<MinTimeout, 1>>,
                         RatMin(<<MaxTimeout, 1>>, Unlimited(m, operationType))))

\* no call of the manager has been made
TimeoutIdle ==
    /\ metrics = InitialMetrics
    /\ adaptiveTimeout = NoTimeout

\* recordMeasurement(responseTime, success)
RecordMeasurement(responseTime, success) ==
    /\ metrics.measurementCount < MaxMeasurements
    /\ metrics' = Recorded(metrics, responseTime, success)
    /\ adaptiveTimeout' = NoTimeout

\* getAdaptiveTimeout(operationType)
GetAdaptiveTimeout(operationType) ==
    /\ adaptiveTimeout' = [operationType |-> operationType,
                           timeout |-> AdaptiveTimeout(metrics, operationType)]
    /\ UNCHANGED metrics

\* resetMetrics()
ResetMetrics ==
    /\ metrics' = InitialMetrics
    /\ adaptiveTimeout' = NoTimeout

(***************************************************************************)
(* JobKoreaService.waitForAnySelector.  A candidate is a selector and the  *)
(* time (ms) the page takes to bring it to the requested state, 0 when it  *)
(* never does.  page.waitForSelector(selector, {timeout}) resolves when    *)
(* that time is below the timeout, rejects when it is above or the         *)
(* selector never shows, and may do either when the two fall together.     *)
(* The whole loop runs inside withTimeoutMeasurement, whose own timer of   *)
(* adaptiveTimeout ms is raced against it and whose finally block records  *)
(* the elapsed time.                                                       *)
(***************************************************************************)
\* selectors.mypage.statusLink and its like: the names of the candidates
SelectorNames == <<".status a", ".my-status a", "a[href*=status]", ".resume-status a">>

\* no call of waitForAnySelector has been made
NoSelectorCall ==
    [pc |-> "idle", selectors |-> <<>>, needs |-> <<>>, timeout |-> 0, i |-> 0,
     elapsed |-> 0, waits |-> <<>>, result |-> Undefined]

\* options.timeout || timeoutManager.getAdaptiveTimeout('element')
TimeoutOrAdaptive(timeout, m) == IF timeout # 0 THEN timeout ELSE AdaptiveTimeout(m, "element")

\* timeout: adaptiveTimeout, every candidate is given the whole budget
SliceWhole(timeout, n) == timeout

\* timeout: Math.floor(adaptiveTimeout / selectors.length)
Slice(timeout, n) == timeout \div n

\* throw new Error(`모든 셀렉터 실패: ${selectors.join(", ")}`)
AllSelectorsFailed(selectors) == JsValue("Error", <<"all selectors failed">> \o selectors, 0)

\* reject(new Error(`Operation timeout after ${adaptiveTimeout}ms`))
OperationTimeout == JsValue("Error", <<"Operation timeout">>, 0)

\* the loop goes on to the next candidate whatever the wait did
LoopAfterWaitKeepsTrying(a, ok) ==
    IF a.i < Len(a.selectors)
    THEN [settled |-> FALSE, ok |-> FALSE, value |-> Undefined]
    ELSE IF ok
         THEN [settled |-> TRUE, ok |-> TRUE, value |-> JsValue("string", <<a.selectors[a.i]>>, 0)]
         ELSE [settled |-> TRUE, ok |-> FALSE, value |-> AllSelectorsFailed(a.selectors)]

\* the body of the for loop after the wait for candidate a.i: return selector
\* in the try block, fall through the catch to the next candidate, or leave
\* the loop and throw
LoopAfterWait(a, ok) ==
    IF ok
    THEN [settled |-> TRUE, ok |-> TRUE, value |-> JsValue("string", <<a.selectors[a.i]>>, 0)]
    ELSE IF a.i < Len(a.selectors)
         THEN [settled |-> FALSE, ok |-> FALSE, value |-> Undefined]
         ELSE [settled |-> TRUE, ok |-> FALSE, value |-> AllSelectorsFailed(a.selectors)]

\* waitForAnySelector(selectors, {timeout}) up to the first waitForSelector;
\* timeout 0 stands for an options object without timeout
WaitForAnySelectorEnter(selectors, needs, timeout) ==
    /\ anySelector.pc = "idle"
    /\ anySelector' = [NoSelectorCall EXCEPT
                         !.pc = "waiting", !.selectors = selectors, !.needs = needs,
                         !.timeout = TimeoutOrAdaptive(timeout, metrics), !.i = 1]
    /\ IF timeout # 0
       THEN UNCHANGED timeoutVars
       ELSE GetAdaptiveTimeout("element")

\* Promise.race([operation(), timeoutPromise]) once the wait for candidate
\* a.i has taken spent ms with outcome ok, then the finally block
WaitSettled(ok, spent) ==
    LET a == anySelector
        at == a.elapsed + spent
        waited == [a EXCEPT !.elapsed = at,
                            !.waits = Append(@, [selector |-> a.selectors[a.i],
                                                 timeout |-> Slice(a.timeout, Len(a.selectors)),
                                                 ok |-> ok])]
        after == LoopAfterWait(a, ok)
    IN  \/ /\ at <= a.timeout
           /\ ~after.settled
           /\ anySelector' = [waited EXCEPT !.i = @ + 1]
           /\ UNCHANGED timeoutVars
        \/ /\ at <= a.timeout
           /\ after.settled
           /\ anySelector' = [waited EXCEPT !.pc = IF after.ok THEN "returned" ELSE "rejected",
                                            !.result = after.value]
           /\ RecordMeasurement(at, after.ok)
        \/ /\ at >= a.timeout
           /\ anySelector' = [a EXCEPT !.pc = "rejected", !.elapsed = a.timeout,
                                       !.result = OperationTimeout]
           /\ RecordMeasurement(a.timeout, FALSE)

\* page.waitForSelector resolves for candidate a.i
WaitForSelectorResolves ==
    LET a == anySelector
    IN  /\ a.pc = "waiting"
        /\ a.needs[a.i] # 0
        /\ a.needs[a.i] <= Slice(a.timeout, Len(a.selectors))
        /\ WaitSettled(TRUE, a.needs[a.i])

\* page.waitForSelector rejects for candidate a.i when its timeout is over
WaitForSelectorRejects ==
    LET a == anySelector
    IN  /\ a.pc = "waiting"
        /\ a.needs[a.i] = 0 \/ a.needs[a.i] >= Slice(a.timeout, Len(a.selectors))
        /\ WaitSettled(FALSE, Slice(a.timeout, Len(a.selectors)))

(***************************************************************************)
(* JobKoreaService.updateCareerInfo: one attempt of the action handed to   *)
(* withRetry.  A text is a sequence of pieces, so that String.includes is  *)
(* the search for a contiguous run of pieces.                              *)
(***************************************************************************)
\* no attempt of updateCareerInfo has been made
NoUpdate ==
    [pc |-> "idle", successPatterns |-> <<>>, message |-> <<>>, answers |-> <<>>,
     popup |-> "none", cause |-> Undefined, captures |-> <<>>, thrown |-> Undefined]

\* dialogMessage.includes(pattern)
Includes(message, pattern) ==
    \E k \in 0..(Len(message) - Len(pattern)) :
        \A j \in 1..Len(pattern) : message[k + j] = pattern[j]

\* successPatterns.every(pattern => dialogMessage.includes(pattern))
IsSuccessEvery(successPatterns, message) ==
    \A p \in DOMAIN successPatterns : Includes(message, successPatterns[p])

\* successPatterns.some(pattern => dialogMessage.includes(pattern))
IsSuccess(successPatterns, message) ==
    \E p \in DOMAIN successPatterns : Includes(message, successPatterns[p])

\* new UpdateError(`예상치 못한 다이얼로그 발생: ${dialogMessage}`)
UnexpectedDialog(message) == JsValue("UpdateError", <<"unexpected dialog: ">> \o message, 0)

\* new UpdateError("이력서 팝업창을 열 수 없습니다.")
NoResumePopup == JsValue("UpdateError", <<"cannot open the resume popup">>, 0)

\* what pageToScreenshot.screenshot() rejects with
ScreenshotError == JsValue("Error", <<"screenshot failed">>, 0)

\* resumePopup && !resumePopup.isClosed() ? resumePopup : this.page
CaptureTarget(popup) == IF popup = "open" THEN "popup" ELSE "page"

\* the catch block, were the screenshot awaited outside its own try
AfterCaptureMasked(error, captured) == IF captured THEN UpdateCatch(error) ELSE ScreenshotError

\* the catch block after the inner try / catch around the screenshot: the
\* error is rethrown or wrapped, whatever the screenshot did
AfterCapture(error, captured) == UpdateCatch(error)

\* the catch block of an attempt that failed with error while the popup was
\* "none" (not opened), "open" or "closed"
Caught(u, error, popup, captured) ==
    [u EXCEPT !.pc = "thrown",
              !.popup = popup,
              !.cause = error,
              !.captures = Append(@, [target |-> CaptureTarget(popup), ok |-> captured]),
              !.thrown = AfterCapture(error, captured)]

\* the attempt starts and gets as far as resumePopup.click(updateButtonSelector)
UpdateClicks ==
    /\ rPc = "loop"
    /\ careerUpdate.pc \in {"idle", "thrown"}
    /\ careerUpdate' = [NoUpdate EXCEPT !.pc = "clicked",
                                        !.successPatterns = careerUpdate.successPatterns,
                                        !.popup = "open"]
    /\ UNCHANGED retryVars

\* the attempt fails before the click: the status link or the popup is not
\* there (no popup), or the popup does not load or has no update button
UpdateFailsEarly ==
    /\ careerUpdate.pc \in {"idle", "thrown"}
    /\ \E popup \in {"none", "open", "closed"}, captured \in BOOLEAN :
          \E e \in (IF popup = "none" THEN DriverErrors \cup {NoResumePopup} ELSE DriverErrors) :
             LET u == Caught([NoUpdate EXCEPT !.successPatterns = careerUpdate.successPatterns],
                             e, popup, captured)
             IN  /\ careerUpdate' = u
                 /\ RetryIterate(FALSE, At(u.thrown, rAttempt))

\* await dialogPromise rejects: no dialog within timeouts.element
DialogMissing ==
    /\ careerUpdate.pc = "clicked"
    /\ \E e \in DriverErrors, popup \in {"open", "closed"}, captured \in BOOLEAN :
          LET u == Caught(careerUpdate, e, popup, captured)
          IN  /\ careerUpdate' = u
              /\ RetryIterate(FALSE, At(u.thrown, rAttempt))

\* await dialogPromise resolves with a dialog of the given text: the text is
\* classified and dialog.accept() or dialog.dismiss() is called
DialogOpens(message) ==
    /\ careerUpdate.pc = "clicked"
    /\ careerUpdate' =
          [careerUpdate EXCEPT
             !.pc = "answering",
             !.message = message,
             !.answers = Append(@, IF IsSuccess(careerUpdate.successPatterns, message)
                                   THEN "accept" ELSE "dismiss")]
    /\ UNCHANGED retryVars

\* dialog.accept() or dialog.dismiss() resolves
AnswerResolves ==
    /\ careerUpdate.pc = "answering"
    /\ IF careerUpdate.answers = <<"accept">>
       THEN /\ careerUpdate' = [careerUpdate EXCEPT !.pc = "resolved"]
            /\ RetryIterate(TRUE, Undefined)
       ELSE \E popup \in {"open", "closed"}, captured \in BOOLEAN :
               LET u == Caught(careerUpdate, UnexpectedDialog(careerUpdate.message),
                               popup, captured)
               IN  /\ careerUpdate' = u
                   /\ RetryIterate(FALSE, At(u.thrown, rAttempt))

\* dialog.accept() or dialog.dismiss() rejects
AnswerRejects ==
    /\ careerUpdate.pc = "answering"
    /\ \E e \in DriverErrors, popup \in {"open", "closed"}, captured \in BOOLEAN :
          LET u == Caught(careerUpdate, e, popup, captured)
          IN  /\ careerUpdate' = u
              /\ RetryIterate(FALSE, At(u.thrown, rAttempt))

\* no call of JobKoreaService is in progress
(***************************************************************************)
(* JobKoreaService.navigateToLoginPage: withRetry around attempts that are *)
(* each one withTimeoutMeasurement('navigation') around page.goto followed *)
(* by waitForAnySelector, itself a withTimeoutMeasurement('element').      *)
(* Promise.race does not stop the operation that lost: when the timer of   *)
(* the outer measurement wins, the lookup it interrupted goes on and its   *)
(* own finally block records when it settles.  Times are ms on one clock;  *)
(* an event happens only when nothing that is due earlier is pending.      *)
(***************************************************************************)
\* no attempt is under way and nothing is left running
NoNavigation ==
    [pc |-> "idle", now |-> 0, started |-> 0, timeout |-> 0, lookupAt |-> 0,
     lookupTimeout |-> 0, wakeAt |-> 0, pending |-> {}, log |-> <<>>]

\* the attempt's first statement: timeoutMs || getAdaptiveTimeout('navigation')
AttemptStarted(n, at, m) ==
    [n EXCEPT !.pc = "goto", !.now = at, !.started = at,
              !.timeout = AdaptiveTimeout(m, "navigation")]

\* nothing left running is due before time at
NothingDueBefore(at) == \A l \in navigation.pending : l.finishAt >= at

\* one recordMeasurement of the call: which attempt's operation made it,
\* for which measurement, during which attempt, and whether that attempt's
\* outer measurement had reported before
Entry(of, kind, late) == [of |-> of, kind |-> kind, during |-> rAttempt, late |-> late]

\* the lookup of the page: how long it takes and how it ends, for a page that
\* shows the element after need ms (0: never)
LookupTook(need, timeout) == IF need = 0 \/ need >= timeout THEN timeout ELSE need

LookupOk(need, timeout) == need # 0 /\ need < timeout

\* what the attempt leaves for withRetry: the time of the next attempt
AttemptOver(n, at) ==
    [n EXCEPT !.pc = "between", !.now = at,
              !.wakeAt = at + BackoffDelay(rOpts, rAttempt)]

\* page.goto resolves after took ms; waitForAnySelector is called
GotoResolves(took) ==
    LET n == navigation
        at == n.started + took
    IN  /\ rPc = "loop"
        /\ n.pc = "goto"
        /\ took < n.timeout
        /\ NothingDueBefore(at)
        /\ navigation' = [n EXCEPT !.pc = "lookup", !.now = at, !.lookupAt = at,
                                   !.lookupTimeout = AdaptiveTimeout(metrics, "element")]
        /\ GetAdaptiveTimeout("element")
        /\ UNCHANGED retryVars

\* page.goto rejects when its timeout is over; the finally block of the
\* attempt's measurement records the failure
GotoRejects ==
    LET n == navigation
        at == n.started + n.timeout
    IN  /\ rPc = "loop"
        /\ n.pc = "goto"
        /\ NothingDueBefore(at)
        /\ \E e \in DriverErrors : RetryIterate(FALSE, At(e, rAttempt))
        /\ RecordMeasurement(n.timeout, FALSE)
        /\ navigation' = [AttemptOver(n, at) EXCEPT
                             !.log = Append(@, Entry(rAttempt, "navigation", FALSE))]

\* waitForAnySelector settles before the timer of the attempt: its finally
\* block records, then that of the attempt
LookupSettles(need) ==
    LET n == navigation
        took == LookupTook(need, n.lookupTimeout)
        ok == LookupOk(need, n.lookupTimeout)
        at == n.lookupAt + took
    IN  /\ rPc = "loop"
        /\ n.pc = "lookup"
        /\ at <= n.started + n.timeout
        /\ NothingDueBefore(at)
        /\ metrics.measurementCount + 2 <= MaxMeasurements
        /\ metrics' = Recorded(Recorded(metrics, took, ok), at - n.started, ok)
        /\ adaptiveTimeout' = NoTimeout
        /\ IF ok THEN RetryIterate(TRUE, Undefined)
           ELSE RetryIterate(FALSE, At(AllSelectorsFailed(<<>>), rAttempt))
        /\ navigation' = [AttemptOver(n, at) EXCEPT
                             !.log = @ \o <<Entry(rAttempt, "element", FALSE),
                                            Entry(rAttempt, "navigation", FALSE)>>]

\* the timer of the attempt fires while waitForAnySelector is pending: the
\* attempt rejects and records its failure; the lookup stays in flight
OuterTimerFires(need) ==
    LET n == navigation
        took == LookupTook(need, n.lookupTimeout)
        at == n.started + n.timeout
    IN  /\ rPc = "loop"
        /\ n.pc = "lookup"
        /\ n.lookupAt + took >= at
        /\ NothingDueBefore(at)
        /\ RetryIterate(FALSE, At(OperationTimeout, rAttempt))
        /\ RecordMeasurement(n.timeout, FALSE)
        /\ navigation' = [AttemptOver(n, at) EXCEPT
                             !.pending = @ \cup {[of |-> rAttempt, finishAt |-> n.lookupAt + took,
                                                  took |-> took,
                                                  ok |-> LookupOk(need, n.lookupTimeout)]},
                             !.log = Append(@, Entry(rAttempt, "navigation", FALSE))]

\* a lookup that was left in flight settles: its finally block records
LeftoverSettles ==
    LET n == navigation
    IN  \E l \in n.pending :
          /\ NothingDueBefore(l.finishAt)
          /\ n.pc \in {"goto", "lookup"} => l.finishAt <= n.started + n.timeout
          /\ rPc = "sleeping" => l.finishAt <= n.wakeAt
          /\ RecordMeasurement(l.took, l.ok)
          /\ navigation' = [n EXCEPT !.now = l.finishAt, !.pending = @ \ {l},
                                     !.log = Append(@, Entry(l.of, "element", TRUE))]
          /\ UNCHANGED retryVars

\* the setTimeout of withRetry fires and the next attempt starts
NextAttemptStarts ==
    /\ navigation.pc = "between"
    /\ NothingDueBefore(navigation.wakeAt)
    /\ RetryWake
    /\ navigation' = AttemptStarted(navigation, navigation.wakeAt, metrics)
    /\ GetAdaptiveTimeout("navigation")

\* no call of the service is in progress
ServiceIdle ==
    /\ anySelector = NoSelectorCall
    /\ careerUpdate = NoUpdate
    /\ navigation = NoNavigation

\* main has not run and no signal has arrived
MainIdle ==
    /\ startup = NoStartup
    /\ shutdown = NoShutdown

(***************************************************************************)
(* SpecRetry: one call of withRetry with any policy and any action.        *)
(***************************************************************************)
BaseDelays == {1000, 2000, 6000}
MaxDelays == {5000, 10000}
Multipliers == {0, 1, 2, 3}

Policies ==
    [maxRetries : 1..MaxRetries, baseDelay : BaseDelays, maxDelay : MaxDelays,
     backoffMultiplier : Multipliers]

\* what an action can resolve with and reject with
ResolvedValues == {JsValue("value", <<"r1">>, 0), JsValue("undefined", <<>>, 0)}

ThrownValues ==
    {JsValue("Error", <<"timeout">>, 0), JsValue("UpdateError", <<"dialog">>, 0),
     JsValue("string", <<"boom">>, 0), JsValue("undefined", <<>>, 0)}

InitRetry ==
    /\ rPc = "loop"
    /\ rOpts \in Policies
    /\ rAttempt = 1
    /\ rLastError = NoAttemptsMade
    /\ rResult = Undefined
    /\ rInvocations = 0
    /\ rLastThrown = Undefined
    /\ rDelays = <<>>
    /\ ProcessIdle
    /\ RunIdle
    /\ TimeoutIdle
    /\ ServiceIdle
    /\ MainIdle

FnResolves ==
    /\ \E v \in ResolvedValues : RetryIterate(TRUE, At(v, rAttempt))
    /\ UNCHANGED <<procVars, runVars>>
    /\ UNCHANGED restVars

FnRejects ==
    /\ \E v \in ThrownValues : RetryIterate(FALSE, At(v, rAttempt))
    /\ UNCHANGED <<procVars, runVars>>
    /\ UNCHANGED restVars

Backoff == RetryWake /\ UNCHANGED <<procVars, runVars>> /\ UNCHANGED restVars

NextRetry == FnResolves \/ FnRejects \/ Backoff

SpecRetry == InitRetry /\ [][NextRetry]_vars

(***************************************************************************)
(* SpecProcess: one call of withBrowserRestart with any workflow and any   *)
(* teardown function.                                                      *)
(***************************************************************************)
\* what a teardown function can reject with
TeardownThrownValues ==
    {JsValue("Error", <<"close failed">>, 0), JsValue("string", <<"restart failed">>, 0)}

InitProcess ==
    /\ RetryIdle
    /\ RunIdle
    /\ pPc = "loop"
    /\ pMaxRetries \in 1..MaxRetries
    /\ pAttempt = 1
    /\ pLastError = NoAttemptsMade
    /\ pResult = Undefined
    /\ pInvocations = 0
    /\ pLastThrown = Undefined
    /\ pRestarts = 0
    /\ pRestartThrew = {}
    /\ pDelays = <<>>
    /\ TimeoutIdle
    /\ ServiceIdle
    /\ MainIdle

WorkflowInvoked == ProcessInvoke /\ UNCHANGED <<retryVars, runVars>> /\ UNCHANGED restVars

WorkflowResolves ==
    /\ \E v \in ResolvedValues : ProcessSettle(TRUE, At(v, pAttempt))
    /\ UNCHANGED <<retryVars, runVars>>
    /\ UNCHANGED restVars

WorkflowRejects ==
    /\ \E v \in ThrownValues : ProcessSettle(FALSE, At(v, pAttempt))
    /\ UNCHANGED <<retryVars, runVars>>
    /\ UNCHANGED restVars

TeardownResolves == ProcessRestartSettle(TRUE, Undefined) /\ UNCHANGED <<retryVars, runVars>> /\ UNCHANGED restVars

TeardownRejects ==
    /\ \E v \in TeardownThrownValues : ProcessRestartSettle(FALSE, At(v, pAttempt))
    /\ UNCHANGED <<retryVars, runVars>>
    /\ UNCHANGED restVars

ProcessBackoff == ProcessWake /\ UNCHANGED <<retryVars, runVars>> /\ UNCHANGED restVars

NextProcess ==
    \/ WorkflowInvoked
    \/ WorkflowResolves
    \/ WorkflowRejects
    \/ TeardownResolves
    \/ TeardownRejects
    \/ ProcessBackoff

SpecProcess == InitProcess /\ [][NextProcess]_vars

(***************************************************************************)
(* Spec: one run of updateResume.  MAX_RETRIES, when it is a positive      *)
(* integer, sets both retry bounds.                                        *)
(***************************************************************************)
Init ==
    /\ RetryIdle
    /\ ProcessIdle
    /\ cfgMaxRetries \in 1..MaxRetries
    /\ uPc = "main"
    /\ retryCount = 0
    /\ wStep = "none"
    /\ stepLog = <<>>
    /\ lastFailure = NoFailure
    /\ bs = NoSession
    /\ openBrowsers = {}
    /\ svcPage = 0
    /\ notifications = <<>>
    /\ posts = <<>>
    /\ nPc = "none"
    /\ cPc = "none"
    /\ exitCodes = {}
    /\ TimeoutIdle
    /\ ServiceIdle
    /\ startup \in {[env |-> env, errors |-> <<>>] : env \in [RequiredVars -> EnvValues]}
    /\ shutdown = NoShutdown

Next ==
    \/ MainRefusesEnvironment
    \/ MainRefusesConfig
    \/ MainStarts
    \/ WorkflowStart
    \/ InitializeResolves
    \/ InitializeRejects
    \/ StepAttemptResolves
    \/ StepAttemptRejects
    \/ StepBackoff
    \/ LoginPageReached
    \/ Authenticated
    \/ PopupDismissed
    \/ MypageReached
    \/ UpdateDone
    \/ StepFails
    \/ RestartBrowser
    \/ RestartDelayOver
    \/ FinishSuccess
    \/ FinishFailure
    \/ PostResolves
    \/ PostRejects
    \/ PostUnreadable
    \/ NotifyBackoff
    \/ NotifySettled
    \/ FinalClose
    \/ Exit

Spec == Init /\ [][Next]_vars

(***************************************************************************)
(* SpecTimeout: the AdaptiveTimeoutManager instance under any sequence of  *)
(* calls of recordMeasurement, getAdaptiveTimeout and resetMetrics.  Its   *)
(* callers are the driver calls inside one attempt of a workflow step;     *)
(* Spec takes such an attempt as a single outcome and keeps the metrics    *)
(* out of its steps, so the manager is followed here on its own.           *)
(***************************************************************************)
\* the response times (ms) that are recorded
ResponseTimes == {400, 14000}

InitTimeout ==
    /\ RetryIdle
    /\ ProcessIdle
    /\ RunIdle
    /\ TimeoutIdle
    /\ ServiceIdle
    /\ MainIdle

RecordSuccess ==
    /\ \E responseTime \in ResponseTimes : RecordMeasurement(responseTime, TRUE)
    /\ UNCHANGED <<retryVars, procVars, runVars, serviceVars, mainVars>>

RecordFailure ==
    /\ \E responseTime \in ResponseTimes : RecordMeasurement(responseTime, FALSE)
    /\ UNCHANGED <<retryVars, procVars, runVars, serviceVars, mainVars>>

Estimate ==
    /\ \E operationType \in OperationTypes : GetAdaptiveTimeout(operationType)
    /\ UNCHANGED <<retryVars, procVars, runVars, serviceVars, mainVars>>

Reset ==
    /\ ResetMetrics
    /\ UNCHANGED <<retryVars, procVars, runVars, serviceVars, mainVars>>

NextTimeout == RecordSuccess \/ RecordFailure \/ Estimate \/ Reset

SpecTimeout == InitTimeout /\ [][NextTimeout]_vars

(***************************************************************************)
(* SpecSelectors: one call of waitForAnySelector, with any list of up to   *)
(* MaxCandidates candidates, with or without options.timeout, on a page    *)
(* that brings each candidate up after some time or never.                 *)
(***************************************************************************)
\* the time (ms) a candidate takes to reach the requested state; 0 is never
Needs == {0, 50, 150}

\* options.timeout; 0 is an options object without timeout
Budgets == {0, 200, 300}

\* the manager's metrics at the time of the call: fresh, or after three
\* operations that ran into their timeout
SeenMetrics ==
    {InitialMetrics,
     Recorded(Recorded(Recorded(InitialMetrics, 14000, FALSE), 14000, FALSE), 14000, FALSE)}

InitSelectors ==
    /\ RetryIdle
    /\ ProcessIdle
    /\ RunIdle
    /\ metrics \in SeenMetrics
    /\ adaptiveTimeout = NoTimeout
    /\ ServiceIdle
    /\ MainIdle

SelectorsCalled ==
    /\ \E n \in 1..MaxCandidates :
          \E needs \in [1..n -> Needs] :
             \E timeout \in Budgets :
                WaitForAnySelectorEnter(SubSeq(SelectorNames, 1, n), needs, timeout)
    /\ UNCHANGED <<retryVars, procVars, runVars, careerUpdate, navigation, mainVars>>

SelectorFound ==
    /\ WaitForSelectorResolves
    /\ UNCHANGED <<retryVars, procVars, runVars, careerUpdate, navigation, mainVars>>

SelectorMissed ==
    /\ WaitForSelectorRejects
    /\ UNCHANGED <<retryVars, procVars, runVars, careerUpdate, navigation, mainVars>>

NextSelectors == SelectorsCalled \/ SelectorFound \/ SelectorMissed

SpecSelectors == InitSelectors /\ [][NextSelectors]_vars

(***************************************************************************)
(* SpecUpdate: one call of updateCareerInfo, that is withRetry around the  *)
(* attempts, with any configured list of success patterns and any dialog   *)
(* text.                                                                   *)
(***************************************************************************)
\* the pieces texts are made of
Pieces == {"update", "done", "error"}

\* the texts of the dialogs: up to two pieces
DialogMessages == {<<>>} \cup {<<a>> : a \in Pieces} \cup {<<a, b>> : a, b \in Pieces}

\* update.successPatterns as configured
PatternLists == {<<>>, << <<"done">> >>, << <<"update", "done">>, <<"done", "done">> >>}

InitUpdate ==
    /\ rPc = "loop"
    /\ rOpts \in {DefaultOptions(maxRetries) : maxRetries \in 1..MaxRetries}
    /\ rAttempt = 1
    /\ rLastError = NoAttemptsMade
    /\ rResult = Undefined
    /\ rInvocations = 0
    /\ rLastThrown = Undefined
    /\ rDelays = <<>>
    /\ ProcessIdle
    /\ RunIdle
    /\ TimeoutIdle
    /\ anySelector = NoSelectorCall
    /\ careerUpdate \in {[NoUpdate EXCEPT !.successPatterns = ps] : ps \in PatternLists}
    /\ navigation = NoNavigation
    /\ MainIdle

UpdateButtonClicked ==
    /\ UpdateClicks
    /\ UNCHANGED <<procVars, runVars, timeoutVars, anySelector, navigation, mainVars>>

UpdateAttemptFailsEarly ==
    /\ UpdateFailsEarly
    /\ UNCHANGED <<procVars, runVars, timeoutVars, anySelector, navigation, mainVars>>

NoDialog ==
    /\ DialogMissing
    /\ UNCHANGED <<procVars, runVars, timeoutVars, anySelector, navigation, mainVars>>

DialogShown ==
    /\ \E message \in DialogMessages : DialogOpens(message)
    /\ UNCHANGED <<procVars, runVars, timeoutVars, anySelector, navigation, mainVars>>

DialogAnswered ==
    /\ AnswerResolves
    /\ UNCHANGED <<procVars, runVars, timeoutVars, anySelector, navigation, mainVars>>

DialogAnswerFails ==
    /\ AnswerRejects
    /\ UNCHANGED <<procVars, runVars, timeoutVars, anySelector, navigation, mainVars>>

UpdateBackoff ==
    /\ RetryWake
    /\ UNCHANGED <<procVars, runVars, timeoutVars, serviceVars, mainVars>>

NextUpdate ==
    \/ UpdateButtonClicked
    \/ UpdateAttemptFailsEarly
    \/ NoDialog
    \/ DialogShown
    \/ DialogAnswered
    \/ DialogAnswerFails
    \/ UpdateBackoff

SpecUpdate == InitUpdate /\ [][NextUpdate]_vars

(***************************************************************************)
(* SpecNavigate: one call of navigateToLoginPage on a site whose pages     *)
(* load fast or slowly and show the element early, late or never.          *)
(***************************************************************************)
\* the time (ms) page.goto takes
GotoTimes == {2000, 18000}

\* the time (ms) the page takes to show the element; 0 is never
LookupNeeds == {0, 1000, 5000}

InitNavigate ==
    /\ rPc = "loop"
    /\ rOpts \in {DefaultOptions(maxRetries) : maxRetries \in 1..MaxRetries}
    /\ rAttempt = 1
    /\ rLastError = NoAttemptsMade
    /\ rResult = Undefined
    /\ rInvocations = 0
    /\ rLastThrown = Undefined
    /\ rDelays = <<>>
    /\ ProcessIdle
    /\ RunIdle
    /\ metrics = InitialMetrics
    /\ adaptiveTimeout = [operationType |-> "navigation",
                          timeout |-> AdaptiveTimeout(InitialMetrics, "navigation")]
    /\ anySelector = NoSelectorCall
    /\ careerUpdate = NoUpdate
    /\ navigation = AttemptStarted(NoNavigation, 0, InitialMetrics)
    /\ MainIdle

PageLoaded ==
    /\ \E took \in GotoTimes : GotoResolves(took)
    /\ UNCHANGED <<procVars, runVars, anySelector, careerUpdate, mainVars>>

PageLoadFails ==
    /\ GotoRejects
    /\ UNCHANGED <<procVars, runVars, anySelector, careerUpdate, mainVars>>

LookupInTime ==
    /\ \E need \in LookupNeeds : LookupSettles(need)
    /\ UNCHANGED <<procVars, runVars, anySelector, careerUpdate, mainVars>>

AttemptTimesOut ==
    /\ \E need \in LookupNeeds : OuterTimerFires(need)
    /\ UNCHANGED <<procVars, runVars, anySelector, careerUpdate, mainVars>>

LateLookup ==
    /\ LeftoverSettles
    /\ UNCHANGED <<procVars, runVars, anySelector, careerUpdate, mainVars>>

NavigateBackoff ==
    /\ NextAttemptStarts
    /\ UNCHANGED <<procVars, runVars, anySelector, careerUpdate, mainVars>>

NextNavigate ==
    \/ PageLoaded
    \/ PageLoadFails
    \/ LookupInTime
    \/ AttemptTimesOut
    \/ LateLookup
    \/ NavigateBackoff

SpecNavigate == InitNavigate /\ [][NextNavigate]_vars

(***************************************************************************)
(* ConfigManager.loadEnvironmentOverrides: MAX_RETRIES.  A string is the   *)
(* sequence of its characters; a number is a record that says whether it   *)
(* is NaN.                                                                 *)
(***************************************************************************)
DecimalDigits == <<"0", "1", "2", "3", "4", "5", "6", "7", "8", "9">>

IsDigit(c) == \E i \in DOMAIN DecimalDigits : DecimalDigits[i] = c

DigitValue(c) == (CHOOSE i \in DOMAIN DecimalDigits : DecimalDigits[i] = c) - 1

NaN == [nan |-> TRUE, value |-> 0]

Number(v) == [nan |-> FALSE, value |-> v]

RECURSIVE SkipWhiteSpace(_)
\* parseInt: leading white space is dropped
SkipWhiteSpace(str) ==
    IF str # <<>> /\ Head(str) = " " THEN SkipWhiteSpace(Tail(str)) ELSE str

RECURSIVE DigitsPrefix(_)
\* parseInt: the longest prefix of digits
DigitsPrefix(str) ==
    IF str # <<>> /\ IsDigit(Head(str)) THEN <<Head(str)>> \o DigitsPrefix(Tail(str)) ELSE <<>>

RECURSIVE DecimalValue(_, _)
DecimalValue(digits, acc) ==
    IF digits = <<>> THEN acc
    ELSE DecimalValue(Tail(digits), 10 * acc + DigitValue(Head(digits)))

\* parseInt(str, 10)
ParseInt(str) ==
    LET trimmed == SkipWhiteSpace(str)
        signed == trimmed # <<>> /\ (Head(trimmed) = "-" \/ Head(trimmed) = "+")
        digits == DigitsPrefix(IF signed THEN Tail(trimmed) ELSE trimmed)
    IN  IF digits = <<>> THEN NaN
        ELSE IF signed /\ Head(trimmed) = "-" THEN Number(0 - DecimalValue(digits, 0))
        ELSE Number(DecimalValue(digits, 0))

\* process.env.MAX_RETRIES: not set, or set to a text
Unset == [set |-> FALSE, text |-> <<>>]

Text(str) == [set |-> TRUE, text |-> str]

\* if (process.env.MAX_RETRIES)
IsTruthy(value) == value.set /\ value.text # <<>>

\* defaultConfig.retry
DefaultRetry ==
    [maxOperationRetries |-> DefaultMaxRetries, maxProcessRetries |-> DefaultMaxRetries]

\* loadEnvironmentOverrides, were every number that is not NaN taken
LoadEnvironmentOverridesUnchecked(value, retry) ==
    IF IsTruthy(value) /\ ~ParseInt(value.text).nan
    THEN [maxOperationRetries |-> ParseInt(value.text).value,
          maxProcessRetries |-> ParseInt(value.text).value]
    ELSE retry

\* loadEnvironmentOverrides: the block of MAX_RETRIES
LoadEnvironmentOverrides(value, retry) ==
    IF IsTruthy(value) /\ ~ParseInt(value.text).nan /\ ParseInt(value.text).value > 0
    THEN [maxOperationRetries |-> ParseInt(value.text).value,
          maxProcessRetries |-> ParseInt(value.text).value]
    ELSE retry

(***************************************************************************)
(* SpecBounds: the configuration is loaded with any MAX_RETRIES, then      *)
(* withRetry or withBrowserRestart is called once, with the configured     *)
(* bound or with a maxRetries of 0 or -1 in its options.                   *)
(***************************************************************************)
\* the values of MAX_RETRIES: the numbers up to MaxRetries as text, and texts
\* that are no positive integer
MaxRetriesTexts ==
    {<<DecimalDigits[k + 1]>> : k \in 0..MaxRetries}
      \cup {<<>>, <<"a", "b", "c">>, <<"-", "1">>, <<"+", "2">>, <<" ", "1">>, <<"0", "2">>,
             <<"2", ".", "5">>, <<"1", "a">>, <<"0", ".", "9">>, <<"-", "0">>}

MaxRetriesValues == {Unset} \cup {Text(str) : str \in MaxRetriesTexts}

\* options.maxRetries of a call that does not take the configured bound
NonPositive == {0 - 1, 0}

InitBounds ==
    /\ RetryIdle
    /\ ProcessIdle
    /\ uPc = "main"
    /\ cfgMaxRetries = DefaultRetry.maxOperationRetries
    /\ retryCount = 0
    /\ wStep = "none"
    /\ stepLog = <<>>
    /\ lastFailure = NoFailure
    /\ bs = NoSession
    /\ openBrowsers = {}
    /\ svcPage = 0
    /\ notifications = <<>>
    /\ posts = <<>>
    /\ nPc = "none"
    /\ cPc = "none"
    /\ exitCodes = {}
    /\ TimeoutIdle
    /\ ServiceIdle
    /\ startup \in {[env |-> [v \in {"MAX_RETRIES"} |-> value], errors |-> <<>>] :
                        value \in MaxRetriesValues}
    /\ shutdown = NoShutdown

\* new ConfigManager(): loadEnvironmentOverrides()
ConfigLoads ==
    /\ uPc = "main"
    /\ uPc' = "configured"
    /\ cfgMaxRetries' =
          LoadEnvironmentOverrides(startup.env["MAX_RETRIES"], DefaultRetry).maxOperationRetries
    /\ UNCHANGED <<retryCount, wStep, stepLog, lastFailure, svcPage, browserVars, notifyVars,
                   retryVars, procVars>>
    /\ UNCHANGED restVars

\* withRetry(fn, options): maxRetries = retryConfig.maxOperationRetries
\* unless the options give one
RetryCalled ==
    /\ uPc = "configured"
    /\ uPc' = "called"
    /\ \E maxRetries \in {cfgMaxRetries} \cup NonPositive : RetryEnter(DefaultOptions(maxRetries))
    /\ UNCHANGED <<cfgMaxRetries, retryCount, wStep, stepLog, lastFailure, svcPage, browserVars,
                   notifyVars, procVars>>
    /\ UNCHANGED restVars

\* withBrowserRestart(fn, restart, options): maxRetries =
\* retryConfig.maxProcessRetries unless the options give one
RestartCalled ==
    /\ uPc = "configured"
    /\ uPc' = "called"
    /\ \E maxRetries \in {cfgMaxRetries} \cup NonPositive : ProcessEnter(maxRetries)
    /\ UNCHANGED <<cfgMaxRetries, retryCount, wStep, stepLog, lastFailure, svcPage, browserVars,
                   notifyVars, retryVars>>
    /\ UNCHANGED restVars

NoAttempt == RetryFallsThrough /\ UNCHANGED <<procVars, runVars>> /\ UNCHANGED restVars

NoProcessAttempt == ProcessFallsThrough /\ UNCHANGED <<retryVars, runVars>> /\ UNCHANGED restVars

NextBounds ==
    \/ ConfigLoads
    \/ RetryCalled
    \/ RestartCalled
    \/ FnResolves
    \/ FnRejects
    \/ Backoff
    \/ NoAttempt
    \/ WorkflowInvoked
    \/ WorkflowResolves
    \/ WorkflowRejects
    \/ TeardownResolves
    \/ TeardownRejects
    \/ ProcessBackoff
    \/ NoProcessAttempt

SpecBounds == InitBounds /\ [][NextBounds]_vars

(***************************************************************************)
(* SpecSignal: one run of updateResume during which SIGINT or SIGTERM may  *)
(* arrive once, at any moment between the registration of the handlers and *)
(* the end of the process.  The environment is complete, and the retry     *)
(* bound stays one below MaxRetries: every state of the run is there once  *)
(* without the signal and once for each signal on its way.                 *)
(***************************************************************************)
InitSignal ==
    /\ Init
    /\ cfgMaxRetries < MaxRetries
    /\ startup = NoStartup

SignalReceived ==
    /\ \E signal \in SignalNames : SignalArrives(signal)
    /\ UNCHANGED <<cfgMaxRetries, retryCount, wStep, stepLog, lastFailure, svcPage, browserVars,
                   notifications, posts, nPc, cPc, retryVars, procVars, timeoutVars,
                   serviceVars, startup>>

ShutdownExits ==
    /\ GracefulShutdownExits
    /\ UNCHANGED <<cfgMaxRetries, retryCount, wStep, stepLog, lastFailure, svcPage,
                   notifications, posts, nPc, cPc, retryVars, procVars, timeoutVars,
                   serviceVars, startup>>

NextSignal ==
    \/ MainStarts
    \/ WorkflowStart
    \/ InitializeResolves
    \/ InitializeRejects
    \/ StepAttemptResolves
    \/ StepAttemptRejects
    \/ StepBackoff
    \/ LoginPageReached
    \/ Authenticated
    \/ PopupDismissed
    \/ MypageReached
    \/ UpdateDone
    \/ StepFails
    \/ RestartBrowser
    \/ RestartDelayOver
    \/ FinishSuccess
    \/ FinishFailure
    \/ PostResolves
    \/ PostRejects
    \/ PostUnreadable
    \/ NotifyBackoff
    \/ NotifySettled
    \/ FinalClose
    \/ Exit
    \/ SignalReceived
    \/ ShutdownExits

SpecSignal == InitSignal /\ [][NextSignal]_vars

(***************************************************************************)
(* SpecSettles: one run of updateResume in which every pending operation   *)
(* of the browser, of the network and of the timers settles at some time.  *)
(* Each action of the run is the settling of one awaited promise, and the  *)
(* run awaits one thing at a time but for the last allSettled, whose two   *)
(* promises are independent: weak fairness of each of the two sides.       *)
(***************************************************************************)
InitSettles ==
    /\ Init
    /\ cfgMaxRetries < MaxRetries
    /\ startup = NoStartup

NotifySide ==
    \/ PostResolves
    \/ PostRejects
    \/ PostUnreadable
    \/ NotifyBackoff
    \/ NotifySettled

NextSettles ==
    \/ MainStarts
    \/ WorkflowStart
    \/ InitializeResolves
    \/ InitializeRejects
    \/ StepAttemptResolves
    \/ StepAttemptRejects
    \/ StepBackoff
    \/ LoginPageReached
    \/ Authenticated
    \/ PopupDismissed
    \/ MypageReached
    \/ UpdateDone
    \/ StepFails
    \/ RestartBrowser
    \/ RestartDelayOver
    \/ FinishSuccess
    \/ FinishFailure
    \/ PostResolves
    \/ PostRejects
    \/ PostUnreadable
    \/ NotifyBackoff
    \/ NotifySettled
    \/ FinalClose
    \/ Exit

SpecSettles ==
    /\ InitSettles
    /\ [][NextSettles]_vars
    /\ WF_vars(NextSettles)
    /\ WF_vars(NotifySide)
    /\ WF_vars(FinalClose)

(***************************************************************************)
(* Claims about withRetry, checked under SpecRetry.                        *)
(***************************************************************************)
\* C1: an action that always rejects is invoked exactly maxRetries times,
\* with exactly maxRetries - 1 delays and none after the final failure; with
\* maxRetries = 3, baseDelay = 2000, multiplier 2, maxDelay = 10000 the delays
\* are 2000 then 4000 (6000 ms in all).
C1_AlwaysRejecting ==
    rPc = "rejected" =>
        /\ rInvocations = rOpts.maxRetries
        /\ Len(rDelays) = rOpts.maxRetries - 1
        /\ rOpts = DefaultOptions(3) =>
              /\ rInvocations = 3
              /\ rDelays = <<2000, 4000>>
              /\ rDelays[1] + rDelays[2] = 6000

C1_Witness ==
    /\ rPc = "rejected"
    /\ rOpts = DefaultOptions(3)
    /\ rInvocations = 3
    /\ rDelays = <<2000, 4000>>

\* C2 as stated: on exhaustion withRetry rejects with exactly the value the
\* last invocation rejected with, whatever that value is.
C2_Original == rPc = "rejected" => rResult = rLastThrown

\* C2 as amended: on exhaustion withRetry rejects with the last invocation's
\* rejection reason itself when that reason is an Error instance; a reason
\* that is no Error is replaced by a new Error whose message is String(reason).
C2_RethrowsLastError ==
    rPc = "rejected" =>
        /\ rLastThrown.at = rOpts.maxRetries
        /\ rLastThrown.cls \in ErrorClasses => rResult = rLastThrown
        /\ rLastThrown.cls \notin ErrorClasses =>
              /\ rResult.cls = "Error"
              /\ rResult.msg =
                    (IF rLastThrown.cls = "undefined" THEN <<"undefined">>
                     ELSE rLastThrown.msg)

C2_Witness ==
    /\ rPc = "rejected"
    /\ rOpts.maxRetries = 3
    /\ rLastThrown.cls = "string"
    /\ rResult = JsValue("Error", <<"boom">>, 3)

\* C3: when the action first succeeds at attempt k, withRetry returns that
\* attempt's result after exactly k invocations (2 for fail-once-then-succeed)
\* and does not invoke the action again.
C3_ReturnsFirstSuccess ==
    /\ [](rPc = "returned" =>
            /\ rInvocations = rAttempt
            /\ rAttempt \in 1..rOpts.maxRetries
            /\ rResult.at = rAttempt
            /\ rResult.cls \in {"value", "undefined"}
            /\ Len(rDelays) = rAttempt - 1)
    /\ [][rPc = "returned" => rInvocations' = rInvocations /\ rPc' = "returned"]_vars

C3_Witness ==
    /\ rPc = "returned"
    /\ rInvocations = 2
    /\ rLastThrown.at = 1
    /\ rResult = JsValue("value", <<"r1">>, 2)

\* C4: the k-th delay (after failed attempt k < maxRetries) is
\* min(baseDelay * backoffMultiplier^(k-1), maxDelay); no delay exceeds
\* maxDelay; for backoffMultiplier >= 1 the delays are non-decreasing.
C4_BackoffDelays ==
    /\ Len(rDelays) < rOpts.maxRetries
    /\ \A k \in 1..Len(rDelays) :
          /\ rDelays[k] =
                (IF rOpts.baseDelay * Pow(rOpts.backoffMultiplier, k - 1) < rOpts.maxDelay
                 THEN rOpts.baseDelay * Pow(rOpts.backoffMultiplier, k - 1)
                 ELSE rOpts.maxDelay)
          /\ rDelays[k] <= rOpts.maxDelay
          /\ (rOpts.backoffMultiplier >= 1 /\ k > 1) => rDelays[k - 1] <= rDelays[k]
    /\ rPc = "sleeping" => Len(rDelays) = rAttempt

C4_Witness ==
    /\ rPc = "rejected"
    /\ rOpts.backoffMultiplier = 2
    /\ rDelays = <<6000, 10000>>

(***************************************************************************)
(* Claims about withBrowserRestart, checked under SpecProcess.             *)
(***************************************************************************)
TeardownMessages == {v.msg : v \in TeardownThrownValues}

\* C5: when teardownAndRestart throws after failed attempt k < maxRetries the
\* failure is swallowed: the loop goes on to its delay and the workflow is
\* invoked for attempt k+1; withBrowserRestart never rejects with a teardown
\* error.
C5_TeardownFailureSwallowed ==
    /\ [](\A k \in pRestartThrew :
            /\ k < pMaxRetries
            /\ \/ pPc = "sleeping" /\ pAttempt = k
               \/ pPc = "loop" /\ pAttempt = k + 1 /\ ENABLED ProcessInvoke
               \/ pInvocations >= k + 1)
    /\ [](pPc = "rejected" =>
            /\ pResult.msg \notin TeardownMessages
            /\ pResult.msg \in {v.msg : v \in ThrownValues} \cup {<<"undefined">>})
    /\ [][pPc = "restart" => pPc' = "sleeping" /\ pAttempt' = pAttempt]_vars

C5_Witness ==
    /\ 1 \in pRestartThrew
    /\ pAttempt = 2
    /\ pInvocations = 2
    /\ pPc = "running"

\* C6: teardownAndRestart is invoked exactly once after each failed attempt
\* k < maxRetries and before attempt k+1 starts, never after a success and
\* never after the final failed attempt: f failures then success give f
\* invocations, all attempts failing gives maxRetries - 1.
C6_TeardownCount ==
    /\ [](/\ pPc \in {"loop", "running", "restart"} => pRestarts = pAttempt - 1
          /\ pPc = "sleeping" => pRestarts = pAttempt /\ pAttempt < pMaxRetries
          /\ pPc = "returned" => pRestarts = pInvocations - 1 /\ pInvocations = pAttempt
          /\ pPc = "rejected" => pRestarts = pMaxRetries - 1 /\ pInvocations = pMaxRetries)
    /\ [][pRestarts' # pRestarts =>
            /\ pRestarts' = pRestarts + 1
            /\ pPc = "restart"
            /\ pLastThrown.at = pAttempt
            /\ pAttempt < pMaxRetries
            /\ pInvocations' = pInvocations]_vars
    /\ [][(pPc = "returned" \/ pPc = "rejected") => pRestarts' = pRestarts]_vars

C6_Witness ==
    /\ pPc = "returned"
    /\ pMaxRetries = 3
    /\ pInvocations = 3
    /\ pRestarts = 2

\* C7: when every workflow attempt fails, withBrowserRestart rejects after
\* exactly maxRetries workflow invocations with the error of the last
\* invocation (a thrown value that is no Error in its String form), not with
\* the first attempt's error and not with a teardown error.
C7_RejectsWithLastWorkflowError ==
    pPc = "rejected" =>
        /\ pInvocations = pMaxRetries
        /\ pLastThrown.at = pMaxRetries
        /\ pResult.at = pMaxRetries
        /\ pLastThrown.cls \in ErrorClasses => pResult = pLastThrown
        /\ pResult.cls \in ErrorClasses
        /\ pResult.msg =
              (IF pLastThrown.cls = "undefined" THEN <<"undefined">> ELSE pLastThrown.msg)
        /\ pResult.msg \notin TeardownMessages

C7_Witness ==
    /\ pPc = "rejected"
    /\ pMaxRetries = 3
    /\ pRestartThrew = {1, 2}
    /\ pResult = JsValue("UpdateError", <<"dialog">>, 3)

(***************************************************************************)
(* Claims about updateResume, checked under Spec.                          *)
(***************************************************************************)
StepIndex(step) == CHOOSE i \in DOMAIN StepOrder : StepOrder[i] = step

StepNames == {StepOrder[i] : i \in DOMAIN StepOrder}

\* the outcome with which a finished step lets the next one start
LetsNextStart(done) ==
    \/ done.outcome = "ok"
    \/ done.step = "DismissPopup" /\ done.outcome = "absorbed"

\* C8: within one process attempt the steps run in the order NavigateLogin,
\* Authenticate, DismissPopup, NavigateMypage, TriggerUpdate, Done.  The steps
\* finished so far are always a prefix of that order; a step is running only
\* when all its predecessors have finished, each of them successfully except
\* that DismissPopup may have absorbed its failure; Done is reached only from
\* TriggerUpdate and only with TriggerUpdate finished successfully; and the
\* running step only ever changes to its successor or, on failure, to none.
C8_StepsInOrder ==
    /\ [](/\ \A i \in DOMAIN stepLog : stepLog[i].step = StepOrder[i]
          /\ wStep \in StepNames =>
                /\ Len(stepLog) = StepIndex(wStep) - 1
                /\ \A i \in DOMAIN stepLog : LetsNextStart(stepLog[i])
          /\ wStep = "Done" =>
                /\ Len(stepLog) = Len(StepOrder)
                /\ \A i \in DOMAIN stepLog : LetsNextStart(stepLog[i])
                /\ stepLog[Len(StepOrder)].outcome = "ok"
                /\ pPc = "returned")
    /\ [][/\ (wStep \in StepNames /\ wStep' # wStep) =>
                \/ /\ StepIndex(wStep) < Len(StepOrder)
                   /\ wStep' = StepOrder[StepIndex(wStep) + 1]
                   /\ stepLog' = Append(stepLog, stepLog'[Len(stepLog')])
                   /\ stepLog'[Len(stepLog')].step = wStep
                \/ /\ wStep = "TriggerUpdate"
                   /\ wStep' = "Done"
                   /\ stepLog'[Len(stepLog')] = StepDone("TriggerUpdate", "ok")
                \/ /\ wStep' = "none"
                   /\ stepLog'[Len(stepLog')] = StepDone(wStep, "failed")
          /\ (wStep' \in StepNames /\ wStep \notin StepNames) =>
                wStep = "Initialize" /\ wStep' = "NavigateLogin"]_vars

\* the second process attempt is Done although DismissPopup failed in it
C8_Witness ==
    /\ wStep = "Done"
    /\ retryCount = 2
    /\ lastFailure.step = "NavigateMypage"
    /\ Len(stepLog) = 5
    /\ stepLog[3] = StepDone("DismissPopup", "absorbed")
    /\ stepLog[5] = StepDone("TriggerUpdate", "ok")

\* C9: a step fails only after maxOperationRetries attempts of its action and
\* its failure settles the process attempt: the retrier closes the browser
\* session (once per failed attempt that is not the last) and the next process
\* attempt starts with no session held and no step finished, initializes a new
\* session and starts at NavigateLogin; every running step works on the page of
\* the session its own process attempt initialized; and the workflow is invoked
\* at most maxProcessRetries times.
C9_RestartsFromScratch ==
    /\ [](/\ retryCount <= cfgMaxRetries
          /\ pInvocations = retryCount
          /\ lastFailure.step \in RetriedSteps => lastFailure.tries = cfgMaxRetries
          /\ (uPc = "process" /\ pPc = "loop") =>
                (bs = NoSession /\ pRestarts = retryCount)
          /\ wStep = "Initialize" => (bs = NoSession /\ stepLog = <<>>)
          /\ wStep \in StepNames =>
                /\ svcPage = retryCount
                /\ bs = [page |-> retryCount, context |-> retryCount,
                         browser |-> retryCount])
    /\ [][/\ retryCount' # retryCount =>
                /\ retryCount' = retryCount + 1
                /\ bs = NoSession
                /\ wStep' = "Initialize"
                /\ stepLog' = <<>>
          /\ (wStep = "Initialize" /\ wStep' \in StepNames) =>
                /\ wStep' = "NavigateLogin"
                /\ bs'.browser \notin openBrowsers
                /\ rPc' = "loop"
                /\ rInvocations' = 0
          /\ (wStep \in StepNames /\ wStep' = "none") =>
                /\ rInvocations = cfgMaxRetries
                /\ pPc' = IF retryCount < cfgMaxRetries THEN "restart" ELSE "rejected"
          /\ pRestarts' # pRestarts =>
                /\ pRestarts' = pRestarts + 1
                /\ pRestarts' = retryCount
                /\ bs' = NoSession]_vars

\* Authenticate failed after three attempts in the first process attempt; the
\* second one is at NavigateLogin on its own session
C9_Witness ==
    /\ cfgMaxRetries = 3
    /\ retryCount = 2
    /\ lastFailure = [step |-> "Authenticate", tries |-> 3]
    /\ pRestarts = 1
    /\ wStep = "NavigateLogin"
    /\ stepLog = <<>>
    /\ svcPage = 2
    /\ bs.page = 2

\* C10: once the workflow has succeeded, the retrier has restarted the browser
\* once per failed process attempt (process attempts minus 1), exactly one
\* notification has been handed to sendTelegramMessage, it is a success
\* notification, and its retry count is the number of process attempts minus 1,
\* absent when the first attempt succeeded; a send that is fulfilled ends with
\* a POST answered 2xx.  In particular a first attempt that failed at
\* TriggerUpdate after 3 tries followed by a successful second attempt gives one
\* restart and retry count 1.  No notification exists before the workflow has
\* settled, and none is added afterwards.
C10_SuccessAfterRetry ==
    /\ (uPc = "process") => (notifications = <<>> /\ posts = <<>>)
    /\ (uPc \in {"finishing", "exited"} /\ pPc = "returned") =>
          /\ pRestarts = retryCount - 1
          /\ Len(notifications) = 1
          /\ notifications[1].kind = "success"
          /\ notifications[1].retryInfo =
                (IF retryCount = 1 THEN <<>> ELSE <<retryCount - 1>>)
          /\ nPc = "fulfilled" => (posts # <<>> /\ posts[Len(posts)] = "2xx")
          /\ (retryCount = 2 /\ lastFailure = [step |-> "TriggerUpdate", tries |-> 3]) =>
                (pRestarts = 1 /\ notifications[1].retryInfo = <<1>>)

\* TriggerUpdate failed three times in the first process attempt, the second
\* succeeded and the notification was delivered
C10_Witness ==
    /\ uPc = "exited"
    /\ exitCodes = {0}
    /\ cfgMaxRetries = 3
    /\ retryCount = 2
    /\ lastFailure = [step |-> "TriggerUpdate", tries |-> 3]
    /\ pRestarts = 1
    /\ notifications = <<[kind |-> "success", reason |-> <<>>, code |-> "NONE",
                          retryInfo |-> <<1>>]>>
    /\ posts = <<"2xx">>

JobKoreaCodes == {"AUTH_ERROR", "NAVIGATION_ERROR", "UPDATE_ERROR"}

\* the run has reached the handling of a rejected withBrowserRestart
WorkflowFailed == uPc \in {"finishing", "exited"} /\ pPc = "rejected"

\* C11 as stated: when all process attempts have failed, the one failure
\* notification always carries an error code.
C11_Original ==
    WorkflowFailed =>
        /\ Len(notifications) = 1
        /\ notifications[1].code \in JobKoreaCodes

\* C11: when all maxProcessRetries process attempts have failed, exactly one
\* notification has been composed, it is a failure notification, its retry
\* marker names the number of process attempts (3 for the default), and the
\* process exits with code 1 and no other.  It carries the code of the final
\* error when that error is a JobKoreaError, which every failure of a step is
\* (NAVIGATION_ERROR, AUTH_ERROR, UPDATE_ERROR by step); a final attempt that
\* failed in the browser initialization leaves a plain Error and the
\* notification carries its message and no code.
C11_FailureNotification ==
    WorkflowFailed =>
        /\ retryCount = cfgMaxRetries
        /\ Len(notifications) = 1
        /\ notifications[1].kind = "failure"
        /\ notifications[1].retryInfo = <<cfgMaxRetries>>
        /\ notifications[1].reason = pResult.msg
        /\ notifications[1].code =
              (CASE lastFailure.step \in {"NavigateLogin", "NavigateMypage"} -> "NAVIGATION_ERROR"
                 [] lastFailure.step = "Authenticate" -> "AUTH_ERROR"
                 [] lastFailure.step = "TriggerUpdate" -> "UPDATE_ERROR"
                 [] lastFailure.step = "Initialize" -> "NONE")
        /\ (notifications[1].code = "NONE") = (pResult.cls = "Error")
        /\ uPc = "exited" => exitCodes = {1}

\* three process attempts failed, the last one at TriggerUpdate; the run has
\* exited after the notification was delivered
C11_Witness ==
    /\ uPc = "exited"
    /\ exitCodes = {1}
    /\ cfgMaxRetries = 3
    /\ retryCount = 3
    /\ pInvocations = 3
    /\ lastFailure = [step |-> "TriggerUpdate", tries |-> 3]
    /\ Len(notifications) = 1
    /\ notifications[1].kind = "failure"
    /\ notifications[1].code = "UPDATE_ERROR"
    /\ notifications[1].retryInfo = <<3>>
    /\ posts = <<"2xx">>

\* C12: a run issues no notification while the process attempts are under way
\* and exactly one from the moment withBrowserRestart has settled: a success
\* notification if the workflow function resolved in some process attempt (the
\* last one made), a failure notification if it rejected in all of them; once
\* issued, the notification is never followed or replaced by another.
C12_ExactlyOneNotification ==
    /\ [](/\ uPc = "process" => notifications = <<>>
          /\ uPc \in {"finishing", "exited"} =>
                /\ Len(notifications) = 1
                /\ pPc \in {"returned", "rejected"}
                /\ (notifications[1].kind = "success") = (pPc = "returned")
                /\ (notifications[1].kind = "success") = (wStep = "Done")
                /\ (notifications[1].kind = "failure") = (pPc = "rejected")
          /\ uPc = "exited" => nPc \in {"fulfilled", "rejected"})
    /\ [][notifications # <<>> => notifications' = notifications]_vars

\* both configured process attempts failed, the second in the browser
\* initialization; the run has exited with its one failure notification
C12_Witness ==
    /\ uPc = "exited"
    /\ cfgMaxRetries = 2
    /\ retryCount = 2
    /\ pPc = "rejected"
    /\ lastFailure.step = "Initialize"
    /\ Len(notifications) = 1
    /\ notifications[1].kind = "failure"
    /\ nPc = "fulfilled"

\* C13 as stated: a POST answered 4xx is the last POST of the send, and the
\* send fails right after it.
C13_Original ==
    \A i \in DOMAIN posts :
        posts[i] = "4xx" =>
            /\ i = Len(posts)
            /\ (uPc = "finishing" /\ nPc = "sending") => rPc = "rejected"

\* the send whose every POST was answered 4xx has made maxOperationRetries
\* requests, with the backoff delays between them, before it failed
C13_Witness ==
    /\ cfgMaxRetries = 3
    /\ uPc = "finishing"
    /\ nPc = "sending"
    /\ posts = <<"4xx", "4xx", "4xx">>
    /\ rDelays = <<2000, 4000>>
    /\ rPc = "rejected"
    /\ rInvocations = 3

\* C14: whether withRetry makes attempt k+1 after the rejection of attempt k
\* depends on k < maxRetries alone: a rejection at k < maxRetries leads to the
\* delay and then to attempt k+1, a rejection at k = maxRetries ends the call,
\* and at every attempt each kind of rejection (Error, JobKoreaError subclass,
\* string, undefined) can occur and is treated in that one way.
C14_UniformRetry ==
    /\ [][(rPc = "loop" /\ rPc' \in {"sleeping", "rejected"}) =>
             /\ (rPc' = "sleeping") = (rAttempt < rOpts.maxRetries)
             /\ (rPc' = "rejected") = (rAttempt = rOpts.maxRetries)]_vars
    /\ [](rPc = "sleeping" => (rAttempt < rOpts.maxRetries /\ ENABLED RetryWake))
    /\ [](rPc = "loop" =>
             \A v \in ThrownValues :
                 ENABLED (/\ RetryIterate(FALSE, At(v, rAttempt))
                          /\ rPc' = (IF rAttempt < rOpts.maxRetries
                                     THEN "sleeping" ELSE "rejected")))
    /\ [][(rPc = "sleeping" /\ rPc' # "sleeping") =>
             (rPc' = "loop" /\ rAttempt' = rAttempt + 1)]_vars

\* a JobKoreaError subclass was thrown by the second of three attempts and the
\* call is waiting to make the third
C14_Witness ==
    /\ rOpts.maxRetries = 3
    /\ rAttempt = 2
    /\ rPc = "sleeping"
    /\ rLastThrown = JsValue("UpdateError", <<"dialog">>, 2)
    /\ rInvocations = 2

\* C15: the exit code is 0 after a workflow that succeeded and 1 after one
\* that failed, whether the notification send was fulfilled or rejected; and
\* once withBrowserRestart has settled the workflow function is never invoked
\* again, no step runs and the browser is not restarted.
C15_NotifyFailureHarmless ==
    /\ [](/\ uPc = "exited" =>
                /\ nPc \in {"fulfilled", "rejected"}
                /\ exitCodes = (IF wStep = "Done" THEN {0} ELSE {1})
                /\ (wStep = "Done") = (notifications[1].kind = "success")
          /\ uPc \in {"main", "process", "finishing"} => exitCodes = {})
    /\ [][(uPc = "finishing" \/ uPc = "exited") =>
             /\ retryCount' = retryCount
             /\ pInvocations' = pInvocations
             /\ pRestarts' = pRestarts
             /\ wStep' = wStep
             /\ pPc' = pPc
             /\ uPc' # "process"]_vars

\* the workflow succeeded at the first attempt, every POST of the success
\* notification failed, and the exit code is 0
C15_Witness ==
    /\ uPc = "exited"
    /\ cfgMaxRetries = 3
    /\ retryCount = 1
    /\ wStep = "Done"
    /\ nPc = "rejected"
    /\ posts = <<"5xx", "network", "4xx">>
    /\ exitCodes = {0}

(***************************************************************************)
(* Claims about the AdaptiveTimeoutManager, checked under SpecTimeout.     *)
(***************************************************************************)
\* getAdaptiveTimeout has returned for the metrics as they are
Estimated == adaptiveTimeout.operationType \in OperationTypes

\* C16: while fewer than 3 attempts have been recorded, whatever their
\* outcomes, getAdaptiveTimeout returns the base timeout of the category:
\* navigation 20000, element 15000, popup 10000, network 8000.
C16_BaseBeforeThreeMeasurements ==
    (Estimated /\ metrics.measurementCount < 3) =>
        adaptiveTimeout.timeout =
            (CASE adaptiveTimeout.operationType = "navigation" -> 20000
               [] adaptiveTimeout.operationType = "element" -> 15000
               [] adaptiveTimeout.operationType = "popup" -> 10000
               [] adaptiveTimeout.operationType = "network" -> 8000)

\* two attempts were recorded, both failed, and the navigation timeout is
\* still 20000
C16_Witness ==
    /\ metrics.measurementCount = 2
    /\ metrics.lastMeasurements = <<>>
    /\ RatEq(metrics.successRate, <<0, 1>>)
    /\ adaptiveTimeout = [operationType |-> "navigation", timeout |-> 20000]

\* C17: lastMeasurements never holds more than 10 samples; a recordMeasurement
\* of a failure leaves it as it is; one of a success appends its duration and,
\* when that makes 11, drops the oldest; and nothing else but resetMetrics
\* changes it.
C17_WindowOfSuccesses ==
    /\ [](/\ Len(metrics.lastMeasurements) <= 10
          /\ Len(metrics.lastMeasurements) <= metrics.measurementCount
          /\ \A i \in DOMAIN metrics.lastMeasurements :
                metrics.lastMeasurements[i] \in ResponseTimes)
    /\ [][RecordFailure => metrics'.lastMeasurements = metrics.lastMeasurements]_vars
    /\ [][RecordSuccess =>
             \E d \in ResponseTimes :
                 metrics'.lastMeasurements =
                     (IF Len(metrics.lastMeasurements) < 10
                      THEN metrics.lastMeasurements \o <<d>>
                      ELSE Tail(metrics.lastMeasurements) \o <<d>>)]_vars
    /\ [][metrics'.lastMeasurements # metrics.lastMeasurements =>
             (RecordSuccess \/ Reset)]_vars

\* twelve attempts were recorded, the window is full and its oldest and newest
\* samples differ
C17_Witness ==
    /\ metrics.measurementCount = 12
    /\ Len(metrics.lastMeasurements) = 10
    /\ metrics.lastMeasurements[1] = 14000
    /\ metrics.lastMeasurements[10] = 400
    /\ metrics.averageResponseTime = <<400 * 9 + 14000, 10>>

\* C18: whatever has been recorded, the value getAdaptiveTimeout returns for
\* any category is at least 5000 and at most 30000.
C18_TimeoutInRange ==
    /\ Estimated => (5000 <= adaptiveTimeout.timeout /\ adaptiveTimeout.timeout <= 30000)
    /\ \A operationType \in OperationTypes :
          /\ 5000 <= AdaptiveTimeout(metrics, operationType)
          /\ AdaptiveTimeout(metrics, operationType) <= 30000

\* the recorded successes took 14000 ms each; 2.5 times that is 35000 and the
\* network timeout is held at 30000
C18_Witness ==
    /\ metrics.measurementCount = 3
    /\ metrics.lastMeasurements = <<14000, 14000, 14000>>
    /\ adaptiveTimeout = [operationType |-> "network", timeout |-> 30000]

\* C19: once 3 attempts have been recorded, a success rate below 0.8 makes
\* getAdaptiveTimeout return more than the base timeout, for every category.
C19_LowSuccessRateRaisesTimeout ==
    (/\ Estimated
     /\ metrics.measurementCount >= 3
     /\ metrics.successRate[1] * 5 < metrics.successRate[2] * 4) =>
        adaptiveTimeout.timeout >
            (CASE adaptiveTimeout.operationType = "navigation" -> 20000
               [] adaptiveTimeout.operationType = "element" -> 15000
               [] adaptiveTimeout.operationType = "popup" -> 10000
               [] adaptiveTimeout.operationType = "network" -> 8000)

\* one quick success in four attempts: the element timeout is 1.5 times 15000
C19_Witness ==
    /\ metrics.measurementCount = 4
    /\ metrics.lastMeasurements = <<400>>
    /\ metrics.successRate = <<1, 4>>
    /\ adaptiveTimeout = [operationType |-> "element", timeout |-> 22500]

\* C20 as stated, in the case it names: a failure that is recorded when the
\* window is full of successes lowers successRate.
C20_Original ==
    [][(RecordFailure /\ Len(metrics.lastMeasurements) = MeasurementWindow) =>
          RatLess(metrics'.successRate, metrics.successRate)]_vars

\* the window is full of successes, failures have been recorded since, and
\* successRate is still 1
C20_Witness ==
    /\ Len(metrics.lastMeasurements) = MeasurementWindow
    /\ metrics.measurementCount > MeasurementWindow
    /\ RatEq(metrics.successRate, <<1, 1>>)
    /\ ENABLED (RecordFailure /\ RatEq(metrics'.successRate, <<1, 1>>))

\* a call of recordMeasurement
Records == RecordSuccess \/ RecordFailure

\* C21: every recordMeasurement call, of a success or of a failure, adds
\* exactly 1 to measurementCount and leaves successRate at the number of
\* samples in lastMeasurements divided by min(10, measurementCount), a division
\* by at least 1; and the call can always be made, with either outcome.
C21_RecordCountsAndRate ==
    /\ [][Records =>
             /\ metrics'.measurementCount = metrics.measurementCount + 1
             /\ metrics'.successRate[1] = Len(metrics'.lastMeasurements)
             /\ metrics'.successRate[2] =
                   (IF metrics'.measurementCount < 10 THEN metrics'.measurementCount ELSE 10)
             /\ metrics'.successRate[2] >= 1]_vars
    /\ [][metrics'.measurementCount # metrics.measurementCount => (Records \/ Reset)]_vars
    /\ [](metrics.measurementCount < MaxMeasurements =>
             (ENABLED RecordSuccess /\ ENABLED RecordFailure))

\* five attempts were recorded, two of them successes: successRate is 2/5
C21_Witness ==
    /\ metrics.measurementCount = 5
    /\ metrics.lastMeasurements = <<400, 14000>>
    /\ metrics.successRate = <<2, 5>>

\* withTimeoutMeasurement(operation, operationType) ends: its finally block
\* records the outcome; adaptiveTimeout is what the call got for operationType
MeasuredCallEnds(operationType) ==
    /\ adaptiveTimeout.operationType = operationType
    /\ Records

\* C22 as stated: the outcome recorded by a call for one category leaves what
\* getAdaptiveTimeout returns for every other category as it was.
C22_Original ==
    [][\A measured \in OperationTypes :
          MeasuredCallEnds(measured) =>
              \A other \in OperationTypes \ {measured} :
                  AdaptiveTimeout(metrics', other) = AdaptiveTimeout(metrics, other)]_vars

\* two attempts are on record, an element call is about to record its failure,
\* and that moves the navigation timeout from 20000 to 30000
C22_Witness ==
    /\ metrics.measurementCount = 2
    /\ adaptiveTimeout.operationType = "element"
    /\ AdaptiveTimeout(metrics, "navigation") = 20000
    /\ ENABLED (/\ MeasuredCallEnds("element")
                /\ AdaptiveTimeout(metrics', "navigation") = 30000)

\* C23: with at least 3 recorded attempts getAdaptiveTimeout returns
\* round(min(30000, max(5000, max(adjusted, 2.5 * average)))), where adjusted
\* is 1.5 * base when successRate < 0.8, 0.9 * base when successRate > 0.95 and
\* base otherwise, and average is the mean of lastMeasurements; with an empty
\* lastMeasurements only adjusted counts.  All terms are taken over the common
\* denominator 20 * n, n the number of samples (1 when there is none).
C23_EstimateFormula ==
    (Estimated /\ metrics.measurementCount >= 3) =>
        LET base == CASE adaptiveTimeout.operationType = "navigation" -> 20000
                      [] adaptiveTimeout.operationType = "element" -> 15000
                      [] adaptiveTimeout.operationType = "popup" -> 10000
                      [] adaptiveTimeout.operationType = "network" -> 8000
            n == IF metrics.lastMeasurements = <<>> THEN 1 ELSE Len(metrics.lastMeasurements)
            s == metrics.successRate
            factor == IF s[1] * 5 < s[2] * 4 THEN 30
                      ELSE IF s[1] * 20 > s[2] * 19 THEN 18
                      ELSE 20
            adjusted == base * factor * n
            floor == 50 * Sum(metrics.lastMeasurements)
            larger == IF floor > adjusted THEN floor ELSE adjusted
            limited == IF larger > 30000 * 20 * n THEN 30000 * 20 * n
                       ELSE IF larger < 5000 * 20 * n THEN 5000 * 20 * n
                       ELSE larger
        IN  /\ adaptiveTimeout.timeout = (2 * limited + 20 * n) \div (40 * n)
            /\ metrics.lastMeasurements = <<>> =>
                  adaptiveTimeout.timeout = (base * factor) \div 20

\* three successes of 400, 14000 and 14000 ms: 2.5 times their mean, 23666.67,
\* exceeds 0.9 * 15000 and the element timeout is 23667
C23_Witness ==
    /\ metrics.measurementCount = 3
    /\ metrics.lastMeasurements = <<400, 14000, 14000>>
    /\ adaptiveTimeout = [operationType |-> "element", timeout |-> 23667]

(***************************************************************************)
(* Claims about the popup step, checked under Spec.                        *)
(***************************************************************************)
\* the entries of the step log for the given step
LogOf(step) == {k \in DOMAIN stepLog : stepLog[k].step = step}

\* C26: handleLoginPopup resolves whatever goes wrong inside it: the step
\* taken from DismissPopup leads to NavigateMypage within the same process
\* attempt, without a browser restart and without a failure being recorded;
\* the step is run once per process attempt and never logged as failed.
C26_PopupNeverFails ==
    /\ [](/\ \A k \in LogOf("DismissPopup") : stepLog[k].outcome \in {"ok", "absorbed"}
          /\ Cardinality(LogOf("DismissPopup")) <= 1
          /\ lastFailure.step # "DismissPopup")
    /\ [][wStep = "DismissPopup" =>
            /\ wStep' = "NavigateMypage"
            /\ pPc' = pPc /\ pPc = "running"
            /\ retryCount' = retryCount
            /\ pRestarts' = pRestarts
            /\ pInvocations' = pInvocations
            /\ lastFailure' = lastFailure
            /\ stepLog' = Append(stepLog, stepLog'[Len(stepLog')])
            /\ stepLog'[Len(stepLog')].step = "DismissPopup"]_vars

\* the first process attempt went through with a popup that could not be
\* dismissed, and the run ended in success without any restart
C26_Witness ==
    /\ uPc = "exited"
    /\ pPc = "returned"
    /\ retryCount = 1
    /\ pRestarts = 0
    /\ \E k \in DOMAIN stepLog : stepLog[k] = StepDone("DismissPopup", "absorbed")
    /\ stepLog[Len(stepLog)] = StepDone("TriggerUpdate", "ok")

(***************************************************************************)
(* Claims about the delay between process attempts, checked under          *)
(* SpecProcess.                                                            *)
(***************************************************************************)
\* C30: the waits between workflow attempts are all of 2000 ms, the base
\* delay, whatever the attempt; a wait is started in the step in which the
\* restart function settles, resolved or rejected, and each invocation of the
\* workflow after the first comes after the wait that follows the attempt
\* before it.
C30_FixedDelayAfterTeardown ==
    /\ [](/\ \A k \in DOMAIN pDelays : pDelays[k] = 2000
          /\ Len(pDelays) = pRestarts
          /\ pPc = "sleeping" => Len(pDelays) = pAttempt)
    /\ [][pDelays' # pDelays =>
            /\ pPc = "restart"
            /\ pPc' = "sleeping"
            /\ pRestarts' = pRestarts + 1
            /\ pDelays' = Append(pDelays, 2000)
            /\ pInvocations' = pInvocations]_vars
    /\ [][pInvocations' # pInvocations =>
            /\ pPc = "loop"
            /\ Len(pDelays) = pInvocations
            /\ pRestarts = pInvocations]_vars

\* the third workflow attempt runs after two waits of 2000 ms, the second of
\* which followed a restart that threw
C30_Witness ==
    /\ pPc = "running"
    /\ pInvocations = 3
    /\ pDelays = <<2000, 2000>>
    /\ 2 \in pRestartThrew

(***************************************************************************)
(* Claims about waitForAnySelector, checked under SpecSelectors.           *)
(***************************************************************************)
\* the call of waitForAnySelector has settled
SelectorCallOver == anySelector.pc \in {"returned", "rejected"}

\* the call of the example: three candidates, a budget of 300 ms, only the
\* third candidate ever shows, after 150 ms
StarvedCall ==
    /\ Len(anySelector.selectors) = 3
    /\ anySelector.timeout = 300
    /\ anySelector.needs = <<0, 0, 150>>

\* C24: every candidate of a call with n candidates is waited for with the
\* timeout floor(budget / n), whatever time the candidates before it took;
\* so the call with three candidates and a budget of 300 ms, of which only
\* the third ever shows and takes 150 ms, fails.
C24_EvenSlices ==
    LET a == anySelector
        n == Len(a.selectors)
    IN  /\ \A k \in DOMAIN a.waits :
              /\ a.waits[k].timeout * n <= a.timeout
              /\ a.timeout < (a.waits[k].timeout + 1) * n
        /\ StarvedCall /\ SelectorCallOver =>
              /\ a.pc = "rejected"
              /\ \A k \in DOMAIN a.waits : ~a.waits[k].ok

\* the call of the example has failed after the third candidate was waited
\* for during 100 ms
C24_Witness ==
    /\ StarvedCall
    /\ anySelector.pc = "rejected"
    /\ Len(anySelector.waits) = 3
    /\ anySelector.waits[3].timeout = 100
    /\ anySelector.elapsed = 300

\* C25: the candidates are waited for in the order of the list, one only
\* after the waits for all before it failed; the call returns the first
\* candidate whose wait succeeds, which is then the last one waited for; it
\* fails with the error that lists all candidates only after the waits for
\* all of them failed.
C25_InListOrder ==
    LET a == anySelector
        n == Len(a.selectors)
    IN  /\ Len(a.waits) <= n
        /\ \A k \in DOMAIN a.waits :
              /\ a.waits[k].selector = a.selectors[k]
              /\ k < Len(a.waits) => ~a.waits[k].ok
        /\ a.pc = "waiting" => a.i = Len(a.waits) + 1
        /\ a.pc = "returned" =>
              /\ a.waits # <<>>
              /\ a.waits[Len(a.waits)].ok
              /\ a.result = JsValue("string", <<a.selectors[Len(a.waits)]>>, 0)
        /\ (a.pc = "rejected" /\ a.result.msg # <<"Operation timeout">>) =>
              /\ a.result = JsValue("Error", <<"all selectors failed">> \o a.selectors, 0)
              /\ Len(a.waits) = n
              /\ \A k \in DOMAIN a.waits : ~a.waits[k].ok

\* a call with three candidates has returned the second one after the wait
\* for the first failed, and the third was never waited for
C25_Witness ==
    /\ Len(anySelector.selectors) = 3
    /\ anySelector.pc = "returned"
    /\ Len(anySelector.waits) = 2
    /\ ~anySelector.waits[1].ok
    /\ anySelector.result = JsValue("string", <<SelectorNames[2]>>, 0)

(***************************************************************************)
(* Claims about updateCareerInfo, checked under SpecUpdate.                *)
(***************************************************************************)
\* the text holds pattern as a contiguous run of pieces
HasRun(text, pattern) ==
    \E from \in 1..(Len(text) + 1) :
        /\ from + Len(pattern) - 1 <= Len(text)
        /\ SubSeq(text, from, from + Len(pattern) - 1) = pattern

\* the text of the dialog holds at least one configured success pattern
Matched ==
    \E p \in DOMAIN careerUpdate.successPatterns :
        HasRun(careerUpdate.message, careerUpdate.successPatterns[p])

MissingVars == {v \in RequiredVars : startup.env[v] \in {"unset", "empty"}}

\* C28: with a required environment variable missing, main logs one error
\* for each missing variable and exits with code 1; the workflow function is
\* never invoked, no browser is launched and no notification is sent.
C28_MissingEnvironment ==
    MissingVars # {} =>
        /\ uPc \in {"main", "refused"}
        /\ pPc = "idle"
        /\ pInvocations = 0
        /\ retryCount = 0
        /\ wStep = "none"
        /\ bs = NoSession
        /\ openBrowsers = {}
        /\ notifications = <<>>
        /\ posts = <<>>
        /\ uPc = "main" => exitCodes = {} /\ startup.errors = <<>>
        /\ uPc = "refused" =>
              /\ exitCodes = {1}
              /\ Len(startup.errors) = Cardinality(MissingVars)
              /\ \A v \in MissingVars :
                    \E k \in DOMAIN startup.errors :
                        startup.errors[k] = <<"environment variable not set", v>>

\* main has exited with three errors logged: two variables are unset and one
\* is empty; the one that is set is the last of the list
C28_Witness ==
    /\ uPc = "refused"
    /\ exitCodes = {1}
    /\ startup.env["JOBKOREA_ID"] = "unset"
    /\ startup.env["JOBKOREA_PWD"] = "empty"
    /\ startup.env["TELEGRAM_BOT_TOKEN"] = "unset"
    /\ startup.env["TELEGRAM_CHAT_ID"] = "valid"
    /\ Len(startup.errors) = 3

(***************************************************************************)
(* Claims about the signal handlers, checked under SpecSignal.             *)
(***************************************************************************)
\* C29 as stated: once a signal has arrived, the process ends only through
\* the handler, after the handler's close() has settled, and with the code
\* of the signal: 130 for SIGINT, 143 for SIGTERM.
C29_Original ==
    (shutdown.signal # "none" /\ uPc = "exited") =>
        /\ shutdown.pc = "exited"
        /\ exitCodes = {IF shutdown.signal = "SIGINT" THEN 130 ELSE 143}

\* SIGTERM arrived while the close() of the failure path was in flight, after
\* the failure notification had settled; the process ended through
\* process.exit(1) with the handler still waiting for its close()
C29_Witness ==
    /\ shutdown.signal = "SIGTERM"
    /\ shutdown.during = <<"finishing", "rejected", "pending">>
    /\ shutdown.pc = "closing"
    /\ uPc = "exited"
    /\ pPc = "rejected"
    /\ exitCodes = {1}

(***************************************************************************)
(* Claims about the errors of the steps, checked under Spec.               *)
(***************************************************************************)
\* the class of the domain error of a step
DomainErrorOf(step) ==
    CASE step \in {"NavigateLogin", "NavigateMypage"} -> "NavigationError"
      [] step = "Authenticate" -> "AuthenticationError"
      [] step = "TriggerUpdate" -> "UpdateError"

\* C31: when the workflow function rejects out of one of the four retried
\* steps, what it rejects with is the domain error of that step, which has
\* one of the codes NAVIGATION_ERROR, AUTH_ERROR, UPDATE_ERROR and is never
\* the driver's own error; and the step's withRetry has then rejected after
\* invoking the action as often as the operation retry bound allows.
C31_DomainErrors ==
    /\ [](lastFailure.step \in RetriedSteps =>
             /\ lastFailure.tries = cfgMaxRetries
             /\ pLastThrown.cls = DomainErrorOf(lastFailure.step)
             /\ pLastThrown \notin DriverErrors)
    /\ [][(wStep \in RetriedSteps /\ pPc = "running" /\ (pPc' = "restart" \/ pPc' = "rejected")) =>
            /\ rPc = "rejected"
            /\ rInvocations = cfgMaxRetries
            /\ pLastThrown'.cls = DomainErrorOf(wStep)
            /\ ErrorCode(pLastThrown') \in {"NAVIGATION_ERROR", "AUTH_ERROR", "UPDATE_ERROR"}
            /\ lastFailure' = [step |-> wStep, tries |-> cfgMaxRetries]]_vars

\* login rejected with an AuthenticationError after three attempts that each
\* ran into the driver's timeout
C31_Witness ==
    /\ cfgMaxRetries = 3
    /\ lastFailure = [step |-> "Authenticate", tries |-> 3]
    /\ pLastThrown.cls = "AuthenticationError"
    /\ pPc = "restart"

(***************************************************************************)
(* Claims about the end of a run, checked under Spec.                      *)
(***************************************************************************)
\* C32: at the end of a run the notification and browserService.close() are
\* started in the same step; from then on the close can be taken whatever
\* the notification has come to, and a POST can be made whether or not the
\* close has settled; neither changes the state of the other, and the
\* process ends only when both have settled.
C32_NotifyAndCloseIndependent ==
    /\ [](/\ uPc \in {"main", "process"} => nPc = "none" /\ cPc = "none"
          /\ uPc \in {"finishing", "exited"} =>
                /\ nPc # "none"
                /\ cPc # "none"
                /\ Len(notifications) = 1
          /\ (uPc = "finishing" /\ cPc = "pending") => ENABLED FinalClose
          /\ (uPc = "finishing" /\ nPc = "sending" /\ rPc = "loop") => ENABLED PostResolves
          /\ uPc = "exited" => nPc \in {"fulfilled", "rejected"} /\ cPc = "done")
    /\ [][cPc' # cPc => nPc' = nPc \/ cPc = "none"]_vars
    /\ [][(nPc' # nPc \/ posts' # posts) => cPc' = cPc \/ nPc = "none"]_vars

\* the run has ended after a failed workflow: the notification was rejected
\* after three failed POSTs and the close went wrong at the page, which left
\* the browser behind; both had settled
C32_Witness ==
    /\ uPc = "exited"
    /\ pPc = "rejected"
    /\ nPc = "rejected"
    /\ Len(posts) = 3
    /\ cPc = "done"
    /\ bs = NoSession
    /\ openBrowsers # {}

\* C33: an attempt of updateCareerInfo that fails takes one screenshot, of
\* the popup when the popup was opened and is not closed and of the main page
\* otherwise; what the attempt rejects with is the failure itself when that is
\* a domain error, and an UpdateError quoting its message when not, whether
\* the screenshot was taken or failed; an attempt that resolves takes none.
C33_CaptureNeverMasks ==
    LET u == careerUpdate
    IN  /\ u.pc = "thrown" =>
              /\ Len(u.captures) = 1
              /\ u.captures[1].target = (IF u.popup = "open" THEN "popup" ELSE "page")
              /\ u.thrown.cls = "UpdateError"
              /\ u.cause.cls = "UpdateError" => u.thrown = u.cause
              /\ u.cause.cls = "Error" =>
                    u.thrown = JsValue("UpdateError", <<"update failed: ">> \o u.cause.msg, 0)
              /\ rLastThrown.msg = u.thrown.msg
        /\ u.pc # "thrown" => u.captures = <<>>

\* the dialog never came, the screenshot of the open popup failed, and the
\* attempt rejected with the UpdateError that quotes the driver's timeout
C33_Witness ==
    /\ careerUpdate.pc = "thrown"
    /\ careerUpdate.popup = "open"
    /\ careerUpdate.answers = <<>>
    /\ careerUpdate.captures = <<[target |-> "popup", ok |-> FALSE]>>
    /\ careerUpdate.thrown = JsValue("UpdateError", <<"update failed: ", "Timeout exceeded">>, 0)

(***************************************************************************)
(* Claims about withTimeoutMeasurement, checked under SpecSelectors.       *)
(***************************************************************************)
\* the call of waitForAnySelector was ended by the timer of withTimeoutMeasurement
TimedOut == anySelector.pc = "rejected" /\ anySelector.result.msg = <<"Operation timeout">>

\* C34 as stated: a call that is ended by the timer of withTimeoutMeasurement
\* rejects with a TimeoutError, the error class that has the code
\* TIMEOUT_ERROR and carries the timeout and the operation type, and one
\* failed measurement has been recorded for it.
C34_Original ==
    TimedOut =>
        /\ anySelector.result.cls = "TimeoutError"
        /\ metrics.measurementCount \in {1, 4}
        /\ metrics.lastMeasurements = <<>>

\* the timer of 300 ms ended a call on fresh metrics: the caller got a plain
\* Error, and one failed measurement was recorded
C34_Witness ==
    /\ TimedOut
    /\ anySelector.timeout = 300
    /\ anySelector.result.cls = "Error"
    /\ ~InstanceOfJobKoreaError(anySelector.result)
    /\ metrics.measurementCount = 1
    /\ metrics.lastMeasurements = <<>>
    /\ metrics.successRate = <<0, 1>>

(***************************************************************************)
(* Claims about the window of the manager, checked under SpecTimeout.      *)
(***************************************************************************)
\* C35: the window keeps the order of recording.  A recorded success goes to
\* the end; the samples that were there keep their places while the window
\* has room, and on a full window each moves up one place, so that the first,
\* the oldest, is the one that goes; a recorded failure moves nothing.
C35_FifoWindow ==
    [][Records =>
         LET old == metrics.lastMeasurements
             new == metrics'.lastMeasurements
         IN  \/ RecordFailure /\ new = old
             \/ /\ RecordSuccess
                /\ Len(old) < 10
                /\ Len(new) = Len(old) + 1
                /\ \A i \in 1..Len(old) : new[i] = old[i]
             \/ /\ RecordSuccess
                /\ Len(old) = 10
                /\ Len(new) = 10
                /\ \A i \in 1..9 : new[i] = old[i + 1]]_vars

\* eleven successes were recorded, the first of 14000 ms and then nine of
\* 400 ms before the last of 14000 ms: the window holds the last ten
C35_Witness ==
    /\ metrics.measurementCount = 11
    /\ RatEq(metrics.successRate, <<1, 1>>)
    /\ Len(metrics.lastMeasurements) = 10
    /\ \A i \in 1..9 : metrics.lastMeasurements[i] = 400
    /\ metrics.lastMeasurements[10] = 14000
    /\ ENABLED RecordSuccess

(***************************************************************************)
(* Claims about termination, checked under SpecSettles.                    *)
(***************************************************************************)
\* C36: when every pending operation settles, the run ends, with exit code 0
\* or 1; the workflow is invoked at most maxProcessRetries times, the action
\* of a step and the POST of the notification at most maxOperationRetries
\* times each
C36_RunTerminates ==
    /\ <>(uPc = "exited" /\ (exitCodes = {0} \/ exitCodes = {1}))
    /\ [](/\ pInvocations <= cfgMaxRetries
          /\ rInvocations <= cfgMaxRetries
          /\ Len(posts) <= cfgMaxRetries
          /\ pAttempt <= cfgMaxRetries
          /\ rAttempt <= cfgMaxRetries)

\* the longest run has ended: every process attempt failed in its last step
\* after all its tries, and every POST of the notification failed
C36_Witness ==
    /\ uPc = "exited"
    /\ exitCodes = {1}
    /\ cfgMaxRetries = MaxRetries - 1
    /\ cfgMaxRetries > 1
    /\ pInvocations = cfgMaxRetries
    /\ lastFailure = [step |-> "TriggerUpdate", tries |-> cfgMaxRetries]
    /\ Len(posts) = cfgMaxRetries
    /\ nPc = "rejected"

(***************************************************************************)
(* Claims about the browser sessions, checked under Spec and SpecSignal.   *)
(***************************************************************************)
\* C37 as stated: at most one browser launched by the run is open at any
\* time, whatever fails inside BrowserService.close().
C37_Original == Cardinality(openBrowsers) <= 1

\* the second process attempt has launched its browser while the browser of
\* the first is still open: the close() of the restart resolved after its
\* page.close() or context.close() had thrown
C37_Witness ==
    /\ openBrowsers = {1, 2}
    /\ bs.browser = 2
    /\ retryCount = 2
    /\ pRestarts = 1
    /\ pRestartThrew = {}
    /\ uPc = "process"

\* C38 as stated: when the process has ended, with whatever exit code, no
\* browser launched by the run is open.
C38_Original == uPc = "exited" => openBrowsers = {}

\* SIGTERM arrived during the first process attempt; the close() of the
\* handler settled without having closed the browser and the process ended
\* with code 143
C38_Witness ==
    /\ uPc = "exited"
    /\ shutdown.signal = "SIGTERM"
    /\ shutdown.pc = "exited"
    /\ shutdown.during[1] = "process"
    /\ exitCodes = {143}
    /\ retryCount = 1
    /\ bs = NoSession
    /\ openBrowsers = {1}

(***************************************************************************)
(* Claims about the measurements of a retried step, checked under          *)
(* SpecNavigate.                                                           *)
(***************************************************************************)
\* C39 as stated: every measurement that the operation of an attempt records
\* is recorded during that attempt, and none after the attempt's own
\* measurement has reported its timeout.
C39_Original ==
    \A i \in DOMAIN navigation.log :
        /\ ~navigation.log[i].late
        /\ navigation.log[i].of = navigation.log[i].during

\* the first attempt loaded the page in 18 s and ran into its timer of 20 s
\* with the lookup pending; the second attempt started 2 s later, and the
\* lookup of the first recorded its result, as the second sample of the
\* manager, one second into the second attempt
C39_Witness ==
    /\ rAttempt = 2
    /\ rPc = "loop"
    /\ navigation.pc = "goto"
    /\ navigation.started = 22000
    /\ navigation.now = 23000
    /\ navigation.log = <<[of |-> 1, kind |-> "navigation", during |-> 1, late |-> FALSE],
                          [of |-> 1, kind |-> "element", during |-> 2, late |-> TRUE]>>
    /\ metrics.measurementCount = 2
    /\ metrics.lastMeasurements = <<5000>>

(***************************************************************************)
(* Claims about the retry bounds, checked under SpecBounds.                *)
(***************************************************************************)
\* the number MAX_RETRIES is read as
Parsed == ParseInt(startup.env["MAX_RETRIES"].text)

\* MAX_RETRIES is set to a text that parseInt reads as a positive integer
Overrides == IsTruthy(startup.env["MAX_RETRIES"]) /\ ~Parsed.nan /\ Parsed.value > 0

====
